---- MODULE Spec2Model ----
(***************************************************************************)
(* GSRSM-to-Conduct SFC generator of grafcet-agents                        *)
(* (agents/generate_conduct_tool.py): GsrsmGraph construction, the         *)
(* priority order of the activated modes and the recursive emission of the *)
(* Conduct SFC by ConductSFCGenerator.                                     *)
(*                                                                         *)
(* Mode ids are sequences of characters (<<"A","1">> is "A1") so that the  *)
(* sort key of get_activated_modes (first character, numeric suffix) is    *)
(* computed from the text as the code computes it.  The emitted DSL is a   *)
(* sequence of line records, one per element of self.lines.                *)
(*                                                                         *)
(* Vocabulary used by the properties: a Step line that names a step number *)
(* that an earlier Step line already declared is the DSL's loop-back to    *)
(* that step (the "Jump" of the specification); the first Step line with a *)
(* given number is the declaration of that step.                           *)
(***************************************************************************)
EXTENDS Integers, Sequences, FiniteSets, TLC

VARIABLES
    modeRecs,            \* gsrsm_data["modes"]: list of mode records
    transRecs,           \* gsrsm_data["transitions"]: list of transition records
    pc,                  \* position of the program
    bi,                  \* index of the record the construction loop is at
    modeKeys,            \* keys of GsrsmGraph.modes in dict (insertion) order
    outgoing,            \* ModeNode.outgoing of every key
    incoming,            \* ModeNode.incoming of every key
    transitions,         \* GsrsmGraph.transitions
    mode_to_step,        \* ConductSFCGenerator.mode_to_step
    step_counter,        \* ConductSFCGenerator.step_counter
    transition_counter,  \* ConductSFCGenerator.transition_counter
    lines,               \* ConductSFCGenerator.lines
    result,              \* value returned by generate()
    stack,               \* call stack of the recursive emission
    elements,            \* sfc_json["elements"] of the mode under test
    available_variables, \* SFCAnalyzer.available_variables
    available_actions,   \* SFCAnalyzer.available_actions
    test_mode,           \* mode_id of _test_single_mode / analyze
    issues,              \* issues of _test_single_mode
    status,              \* SFCTestResult.status
    io_context,          \* SimulationAgentLoop.io_context: names of variables and actions
    issues_again,        \* issue list returned by a repeated call of analyze
    modes_parallel_agent, \* adk_swarm.modes_parallel_agent: which ParallelAgent the global names
    sub_agents,          \* sub_agents of every ParallelAgent, in creation order
    register_result,     \* the last call of register_mode_agents and what it returned
    sfc_files,           \* tool_context.state["sfc_files"] (absent key: empty list)
    compile_result,      \* what the last compile_and_save_sfc returned
    get_result,          \* what get_sfc_from_state returned
    attempt,             \* loop variable of _process_single_file
    previous_error,      \* previous_error of _process_single_file
    calls,               \* the calls of _call_agent made so far, each with its outcome
    file_result,         \* SFCFileResult returned by _process_single_file
    transfer_iteration,  \* transfer_iteration of the WebSocket handler
    pending_transfers,   \* pending_transfers: targets of the transfer_to_agent actions of the last run
    current_message,     \* current_message: the text the next run is started with
    runs,                \* how many times dynamic_runner.run_async was started
    connected_clients,   \* orchestrator.connected_clients: the set of open WebSockets
    handlers,            \* where the websocket_vibe_endpoint call of each client is
    broadcast,           \* the call of broadcast_to_clients: its position and its locals
    gsrsm_data,          \* gsrsm_data handed to run_sfc_generation_pipeline
    mode_step_mapping,   \* results["mode_step_mapping"]: dict as its items in insertion order
    mode_contexts        \* mode_contexts built by the pipeline

vars == <<modeRecs, transRecs, pc, bi, modeKeys, outgoing, incoming, transitions,
          mode_to_step, step_counter, transition_counter, lines, result, stack,
          elements, available_variables, available_actions, test_mode, issues,
          status, io_context, issues_again,
          modes_parallel_agent, sub_agents, register_result,
          sfc_files, compile_result, get_result,
          attempt, previous_error, calls, file_result,
          transfer_iteration, pending_transfers, current_message, runs,
          connected_clients, handlers, broadcast,
          gsrsm_data, mode_step_mapping, mode_contexts>>

graphVars == <<modeKeys, outgoing, incoming, transitions>>
genVars == <<mode_to_step, step_counter, transition_counter, lines, result, stack>>
testInputs == <<elements, available_variables, available_actions, test_mode, io_context>>
testVars == <<elements, available_variables, available_actions, test_mode, issues, status,
              io_context, issues_again>>
conductVars == <<modeRecs, transRecs, bi, graphVars, genVars>>
regVars == <<modes_parallel_agent, sub_agents, register_result>>
stateVars == <<sfc_files, compile_result, get_result>>
retryVars == <<attempt, previous_error, calls, file_result>>
xferVars == <<transfer_iteration, pending_transfers, current_message, runs>>
bcastVars == <<connected_clients, handlers, broadcast>>
ctxVars == <<gsrsm_data, mode_step_mapping, mode_contexts>>
notRegVars == <<stateVars, retryVars, xferVars, bcastVars, ctxVars>>
notStateVars == <<regVars, retryVars, xferVars, bcastVars, ctxVars>>
notRetryVars == <<regVars, stateVars, xferVars, bcastVars, ctxVars>>
notXferVars == <<regVars, stateVars, retryVars, bcastVars, ctxVars>>
notBcastVars == <<regVars, stateVars, retryVars, xferVars, ctxVars>>
notCtxVars == <<regVars, stateVars, retryVars, xferVars, bcastVars>>
toolVars == <<regVars, stateVars, retryVars, xferVars, bcastVars, ctxVars>>

----------------------------------------------------------------------------
(* Bounds of the model *)

MaxTrans == 4        \* longest list of transition records (synthesis)
MaxDepth == 6        \* frames the interpreter allows before RecursionError
MaxModeRecs == 3     \* longest list of mode records (construction, ordering)
MaxTransRecs == 2    \* longest list of transition records (construction)
MaxConns == 3        \* most connections of an analysed graph
MaxGuards == 2       \* most transitions of an analysed guard program
MaxActions == 2      \* most action references on one analysed step
MaxSwarms == 2       \* most configured swarms created
MaxFiles == 3        \* most entries of state["sfc_files"]
MaxClients == 3      \* most WebSocket clients that ever connect
MaxGsrsmModes == 3   \* longest list of gsrsm_data["modes"]

----------------------------------------------------------------------------
(* Text helpers *)

Range(s) == {s[i] : i \in DOMAIN s}

SeqsUpTo(S, n) == UNION {[1..k -> S] : k \in 0..n}

NoText == <<>>                 \* a missing or empty string field
Missing == "<missing>"         \* the "condition" key is absent from the record
None == "<None>"               \* Python's None where a text is expected

A1 == <<"A", "1">>
A2 == <<"A", "2">>
F1 == <<"F", "1">>
D1 == <<"D", "1">>

\* the WebSocket objects that can ever be accepted
Clients == 1..MaxClients

\* broadcast_to_clients before it is called
NotCalled == [at |-> "idle", used |-> 0, pending |-> {}, sent |-> 0,
              disconnected |-> {}, delivered |-> {}, result |-> 0]
AX == <<"A", "x">>
AY == <<"A", "y">>
A01 == <<"A", "0", "1">>
A100 == <<"A", "1", "0", "0">>
X1 == <<"X", "1">>

DigitChars == {"0", "1", "2", "3", "4", "5", "6", "7", "8", "9"}

DigitVal(c) ==
    CASE c = "0" -> 0 [] c = "1" -> 1 [] c = "2" -> 2 [] c = "3" -> 3
      [] c = "4" -> 4 [] c = "5" -> 5 [] c = "6" -> 6 [] c = "7" -> 7
      [] c = "8" -> 8 [] c = "9" -> 9

\* str.isdigit(): non-empty and every character a digit
isdigit(s) == Len(s) > 0 /\ \A i \in DOMAIN s : s[i] \in DigitChars

\* int(s) of a string of decimal digits
RECURSIVE int(_)
int(s) ==
    IF Len(s) = 0 THEN 0
    ELSE 10 * int(SubSeq(s, 1, Len(s) - 1)) + DigitVal(s[Len(s)])

----------------------------------------------------------------------------
(* GsrsmGraph.get_activated_modes *)

\* priority.get(m[0], 9)
priority(c) ==
    CASE c = "A" -> 0 [] c = "F" -> 1 [] c = "D" -> 2 [] OTHER -> 9

\* the sort key lambda: (priority.get(m[0], 9), int(m[1:]) if m[1:].isdigit() else 99)
SortKey(m) ==
    <<priority(m[1]), IF isdigit(Tail(m)) THEN int(Tail(m)) ELSE 99>>

\* tuple comparison of two keys
KeyLess(a, b) == a[1] < b[1] \/ (a[1] = b[1] /\ a[2] < b[2])

\* list.sort is stable: x goes after every element whose key is not greater
RECURSIVE InsertByKey(_, _)
InsertByKey(s, x) ==
    IF s = <<>> THEN <<x>>
    ELSE IF KeyLess(SortKey(x), SortKey(s[1])) THEN <<x>> \o s
    ELSE <<s[1]>> \o InsertByKey(Tail(s), x)

RECURSIVE SortByKey(_)
SortByKey(s) ==
    IF s = <<>> THEN <<>>
    ELSE InsertByKey(SortByKey(SubSeq(s, 1, Len(s) - 1)), s[Len(s)])

get_activated_modes(keys) == SortByKey(keys)

----------------------------------------------------------------------------
(* Input records *)

ModeRec(id, code, act) == [id |-> id, code |-> code, activated |-> act]

TransRec(f, t, c, act) ==
    [fromMode |-> f, toMode |-> t, condition |-> c, activated |-> act]

\* mode.get("id") or mode.get("code")
ModeIdOf(rec) == IF rec.id # NoText THEN rec.id ELSE rec.code

\* trans.get("condition", "TRUE")
ConditionOf(rec) == IF rec.condition = Missing THEN "TRUE" ELSE rec.condition

----------------------------------------------------------------------------
(* GsrsmGraph.__init__ / _build_graph, one loop iteration per step *)

\* first loop: for mode in gsrsm_data.get("modes", [])
build_modes ==
    /\ pc = "build_modes"
    /\ IF bi > Len(modeRecs)
       THEN /\ pc' = "build_edges"
            /\ bi' = 1
            /\ UNCHANGED graphVars
       ELSE LET rec == modeRecs[bi]
                mode_id == ModeIdOf(rec)
            IN  /\ bi' = bi + 1
                /\ pc' = pc
                /\ IF mode_id # NoText /\ rec.activated
                   THEN /\ modeKeys' = IF mode_id \in Range(modeKeys)
                                       THEN modeKeys
                                       ELSE Append(modeKeys, mode_id)
                        /\ outgoing' = [k \in Range(modeKeys) \cup {mode_id} |->
                                          IF k = mode_id THEN <<>> ELSE outgoing[k]]
                        /\ incoming' = [k \in Range(modeKeys) \cup {mode_id} |->
                                          IF k = mode_id THEN <<>> ELSE incoming[k]]
                        /\ UNCHANGED transitions
                   ELSE UNCHANGED graphVars
    /\ UNCHANGED <<modeRecs, transRecs>>
    /\ UNCHANGED genVars
    /\ UNCHANGED testVars
    /\ UNCHANGED toolVars

\* a filter that looks at the source mode only
EdgeAccepted_SourceOnly(trans, keys) ==
    trans.activated /\ trans.fromMode \in keys

\* "if not trans.get('activated', False): continue" and
\* "if from_mode in self.modes and to_mode in self.modes:"
EdgeAccepted(trans, keys) ==
    trans.activated /\ trans.fromMode \in keys /\ trans.toMode \in keys

\* second loop: for trans in gsrsm_data.get("transitions", [])
build_edges ==
    /\ pc = "build_edges"
    /\ IF bi > Len(transRecs)
       THEN /\ pc' = "built"
            /\ bi' = 1
            /\ UNCHANGED graphVars
       ELSE LET trans == transRecs[bi]
                from_mode == trans.fromMode
                to_mode == trans.toMode
                condition == ConditionOf(trans)
            IN  /\ bi' = bi + 1
                /\ pc' = pc
                /\ IF EdgeAccepted(trans, Range(modeKeys))
                   THEN /\ outgoing' = [outgoing EXCEPT ![from_mode] =
                                           Append(@, <<to_mode, condition>>)]
                        /\ incoming' = [incoming EXCEPT ![to_mode] =
                                           Append(@, <<from_mode, condition>>)]
                        /\ transitions' = Append(transitions, trans)
                        /\ UNCHANGED modeKeys
                   ELSE UNCHANGED graphVars
    /\ UNCHANGED <<modeRecs, transRecs>>
    /\ UNCHANGED genVars
    /\ UNCHANGED testVars
    /\ UNCHANGED toolVars

----------------------------------------------------------------------------
(* Lines of the Conduct SFC DSL *)

Line(k, ind, n, txt, m) == [k |-> k, ind |-> ind, n |-> n, txt |-> txt, m |-> m]

\* 'SFC "System Conduct - GSRSM Orchestrator"'
HeaderLine == Line("SFC", 0, -1, "System Conduct - GSRSM Orchestrator", NoText)

\* f'{prefix}Step {n} ({tag})'
StepLine(ind, n, tag) == Line("Step", ind, n, tag, NoText)

\* f'{prefix}Transition T{n} "{guard}"'
TransitionLine(ind, n, guard) == Line("Transition", ind, n, guard, NoText)

\* f'{prefix}    LinkedFile "{mode}/default"'
LinkedFileLine(ind, mode) == Line("LinkedFile", ind + 4, -1, "default", mode)

DivergenceLine == Line("DivergenceOR", 0, -1, "", NoText)
BranchLine == Line("Branch", 4, -1, "", NoText)
EndBranchLine == Line("EndBranch", 4, -1, "", NoText)
EndDivergenceLine == Line("EndDivergence", 0, -1, "", NoText)

CYCLE_COMPLETE == "CYCLE_COMPLETE"

\* a minimal text that closes the loop with a second transition
generate_empty_sfc_NoClosingStep ==
    <<HeaderLine, StepLine(0, 0, "Initial"), TransitionLine(0, 0, "TRUE"),
      TransitionLine(0, 1, "TRUE")>>

\* _generate_empty_sfc: the literal four-line text
generate_empty_sfc ==
    <<HeaderLine, StepLine(0, 0, "Initial"), TransitionLine(0, 0, "TRUE"),
      StepLine(0, 0, "Initial")>>

----------------------------------------------------------------------------
(* Call stack of the emission: one frame per active call of                *)
(* _generate_transitions_from_mode ("gen") or _add_transition_to_mode      *)
(* ("add").  b = 0: the body has not run yet; for a "gen" frame b >= 1 is  *)
(* the index of the outgoing edge whose call is in progress.               *)

Frame(f, m, c, ind, b) == [f |-> f, m |-> m, c |-> c, ind |-> ind, b |-> b]

Top == stack[Len(stack)]
Pop == SubSeq(stack, 1, Len(stack) - 1)
SetTopB(b) == [stack EXCEPT ![Len(stack)].b = b]

\* a call: the interpreter raises RecursionError when the stack is full
Call(stk, frame) ==
    IF Len(stk) >= MaxDepth
    THEN /\ pc' = "RecursionError"
         /\ stack' = stk
    ELSE /\ pc' = pc
         /\ stack' = Append(stk, frame)

----------------------------------------------------------------------------
(* ConductSFCGenerator.generate up to the first recursive call, including  *)
(* _generate_mode_sequence                                                 *)

\* for mode_id in modes: self.mode_to_step[mode_id] = self.step_counter; += 1
AssignSteps(modes) ==
    [m \in Range(modes) |-> (CHOOSE i \in DOMAIN modes : modes[i] = m) - 1]

\* a first step that is emitted as a Macro step
FirstStepLines_Macro(first_step, first_mode) ==
    <<StepLine(0, first_step, "Macro"), LinkedFileLine(0, first_mode)>>

\* _generate_mode_sequence: 'Step {first_step} (Initial)' and its LinkedFile
FirstStepLines(first_step, first_mode) ==
    <<StepLine(0, first_step, "Initial"), LinkedFileLine(0, first_mode)>>

generate ==
    /\ pc = "built"
    /\ LET modes == get_activated_modes(modeKeys)
       IN  IF modes = <<>>
           THEN /\ lines' = <<HeaderLine>>
                /\ result' = generate_empty_sfc
                /\ pc' = "done"
                /\ mode_to_step' = <<>>
                /\ step_counter' = 0
                /\ transition_counter' = 0
                /\ stack' = <<>>
           ELSE LET first_mode == modes[1]
                    steps == AssignSteps(modes)
                    first_step == steps[first_mode]
                IN  /\ mode_to_step' = steps
                    /\ step_counter' = Len(modes)
                    /\ transition_counter' = 0
                    /\ lines' = <<HeaderLine>> \o FirstStepLines(first_step, first_mode)
                    /\ result' = result
                    /\ pc' = "emit"
                    /\ stack' = <<Frame("gen", first_mode, "", 0, 0)>>
    /\ UNCHANGED <<modeRecs, transRecs, bi>>
    /\ UNCHANGED graphVars
    /\ UNCHANGED testVars
    /\ UNCHANGED toolVars

\* return "\n".join(self.lines)
generate_return ==
    /\ pc = "emit"
    /\ stack = <<>>
    /\ result' = lines
    /\ pc' = "done"
    /\ UNCHANGED <<modeRecs, transRecs, bi, mode_to_step, step_counter,
                   transition_counter, lines, stack>>
    /\ UNCHANGED graphVars
    /\ UNCHANGED testVars
    /\ UNCHANGED toolVars

----------------------------------------------------------------------------
(* ConductSFCGenerator._generate_transitions_from_mode *)

\* a loop-back that closes on the step of the last mode
LoopBackLines_LastStep(tc) ==
    <<TransitionLine(0, tc, CYCLE_COMPLETE), StepLine(0, step_counter - 1, "Initial")>>

\* a loop-back that goes to step 0 without a closing transition
LoopBackLines_NoTransition(tc) == <<StepLine(0, 0, "Initial")>>

\* a loop-back that names step 0 before the closing transition
LoopBackLines_StepFirst(tc) ==
    <<StepLine(0, 0, "Initial"), TransitionLine(0, tc, CYCLE_COMPLETE)>>

\* the two lines of "if not outgoing:"
LoopBackLines(tc) ==
    <<TransitionLine(0, tc, CYCLE_COMPLETE), StepLine(0, 0, "Initial")>>

\* "if current_mode not in self.graph.modes: return" and "if not outgoing:"
loop_back ==
    /\ pc = "emit"
    /\ stack # <<>>
    /\ Top.f = "gen" /\ Top.b = 0
    /\ \/ Top.m \notin Range(modeKeys)
       \/ outgoing[Top.m] = <<>>
    /\ IF Top.m \notin Range(modeKeys)
       THEN UNCHANGED <<lines, transition_counter>>
       ELSE /\ lines' = lines \o LoopBackLines(transition_counter)
            /\ transition_counter' = transition_counter + 1
    /\ stack' = Pop
    /\ UNCHANGED <<modeRecs, transRecs, pc, bi, mode_to_step, step_counter, result>>
    /\ UNCHANGED graphVars
    /\ UNCHANGED testVars
    /\ UNCHANGED toolVars

\* "if len(outgoing) == 1:" the call of _add_transition_to_mode
single_transition ==
    /\ pc = "emit"
    /\ stack # <<>>
    /\ Top.f = "gen" /\ Top.b = 0
    /\ Top.m \in Range(modeKeys)
    /\ Len(outgoing[Top.m]) = 1
    /\ LET edge == outgoing[Top.m][1]
       IN  Call(SetTopB(1), Frame("add", edge[1], edge[2], 0, 0))
    /\ UNCHANGED <<modeRecs, transRecs, bi, mode_to_step, step_counter,
                   transition_counter, lines, result>>
    /\ UNCHANGED graphVars
    /\ UNCHANGED testVars
    /\ UNCHANGED toolVars

\* branches taken from the end of the edge list
BranchEdge_Reversed(out, b) == out[Len(out) + 1 - b]

\* "for target, condition in outgoing": the edge of the b-th branch
BranchEdge(out, b) == out[b]

\* "else:" 'Divergence OR', the first '    Branch' and its call
or_divergence ==
    /\ pc = "emit"
    /\ stack # <<>>
    /\ Top.f = "gen" /\ Top.b = 0
    /\ Top.m \in Range(modeKeys)
    /\ Len(outgoing[Top.m]) > 1
    /\ lines' = lines \o <<DivergenceLine, BranchLine>>
    /\ LET edge == BranchEdge(outgoing[Top.m], 1)
       IN  Call(SetTopB(1), Frame("add", edge[1], edge[2], 8, 0))
    /\ UNCHANGED <<modeRecs, transRecs, bi, mode_to_step, step_counter,
                   transition_counter, result>>
    /\ UNCHANGED graphVars
    /\ UNCHANGED testVars
    /\ UNCHANGED toolVars

\* the call of _add_transition_to_mode has returned
gen_resume ==
    /\ pc = "emit"
    /\ stack # <<>>
    /\ Top.f = "gen" /\ Top.b >= 1
    /\ LET out == outgoing[Top.m]
       IN  IF Len(out) = 1
           THEN /\ stack' = Pop
                /\ UNCHANGED <<lines, pc>>
           ELSE IF Top.b < Len(out)
           THEN /\ lines' = lines \o <<EndBranchLine, BranchLine>>
                /\ LET edge == BranchEdge(out, Top.b + 1)
                   IN  Call(SetTopB(Top.b + 1), Frame("add", edge[1], edge[2], 8, 0))
           ELSE /\ lines' = lines \o <<EndBranchLine, EndDivergenceLine>>
                /\ stack' = Pop
                /\ pc' = pc
    /\ UNCHANGED <<modeRecs, transRecs, bi, mode_to_step, step_counter,
                   transition_counter, result>>
    /\ UNCHANGED graphVars
    /\ UNCHANGED testVars
    /\ UNCHANGED toolVars

----------------------------------------------------------------------------
(* ConductSFCGenerator._add_transition_to_mode(target, condition,          *)
(* all_modes, indent): the Transition carrying the edge's guard, the       *)
(* target mode's Macro step with its LinkedFile, then the continuation of  *)
(* the target mode.                                                        *)

add_transition_to_mode ==
    /\ pc = "emit"
    /\ stack # <<>>
    /\ Top.f = "add" /\ Top.b = 0
    /\ lines' = lines \o <<TransitionLine(Top.ind, transition_counter, Top.c),
                           StepLine(Top.ind, mode_to_step[Top.m], "Macro"),
                           LinkedFileLine(Top.ind, Top.m)>>
    /\ transition_counter' = transition_counter + 1
    /\ Call(SetTopB(1), Frame("gen", Top.m, "", 0, 0))
    /\ UNCHANGED <<modeRecs, transRecs, bi, mode_to_step, step_counter, result>>
    /\ UNCHANGED graphVars
    /\ UNCHANGED testVars
    /\ UNCHANGED toolVars

add_return ==
    /\ pc = "emit"
    /\ stack # <<>>
    /\ Top.f = "add" /\ Top.b = 1
    /\ stack' = Pop
    /\ UNCHANGED <<modeRecs, transRecs, pc, bi, mode_to_step, step_counter,
                   transition_counter, lines, result>>
    /\ UNCHANGED graphVars
    /\ UNCHANGED testVars
    /\ UNCHANGED toolVars

----------------------------------------------------------------------------
(* Inputs and specifications *)

Guards == {"g1", "g2"}

\* mode records of the synthesis runs: D1, F1, A1 in that order
SynthModeLists ==
    {<<>>} \cup
    {<<ModeRec(D1, NoText, d), ModeRec(F1, NoText, f), ModeRec(A1, NoText, a)>> :
        d \in BOOLEAN, f \in BOOLEAN, a \in BOOLEAN}

\* transition records of the synthesis runs
SynthTransRecs ==
    {TransRec(A1, F1, "g1", TRUE), TransRec(A1, F1, "g2", TRUE),
     TransRec(A1, D1, "g2", TRUE), TransRec(F1, D1, "g1", TRUE),
     TransRec(F1, D1, "g2", TRUE), TransRec(F1, A1, "g1", TRUE),
     TransRec(D1, A1, "g1", TRUE), TransRec(D1, D1, "g2", TRUE)}

\* no mode under test
NoTest ==
    /\ elements = <<>>
    /\ available_variables = {}
    /\ available_actions = {}
    /\ test_mode = NoText
    /\ issues = <<>>
    /\ status = ""
    /\ io_context = [variables |-> <<>>, actions |-> <<>>]
    /\ issues_again = <<>>

NoReg ==
    /\ modes_parallel_agent = 1
    /\ sub_agents = <<<<>>>>
    /\ register_result = [caller |-> 0, modes |-> <<>>, held_before |-> 0, success |-> FALSE,
                        registered_count |-> 0, agents |-> <<>>]

NoState ==
    /\ sfc_files = <<>>
    /\ compile_result = [success |-> FALSE, error |-> ""]
    /\ get_result = [success |-> FALSE, error |-> "", sfc_name |-> NoText, mode_id |-> NoText,
                   sfc_code |-> "", sfc_content |-> "", available_sfcs |-> <<>>]

NoRetry ==
    /\ attempt = 1
    /\ previous_error = None
    /\ calls = <<>>
    /\ file_result = [success |-> FALSE, attempts |-> 0, error |-> None]

NoXfer ==
    /\ transfer_iteration = 0
    /\ pending_transfers = <<>>
    /\ current_message = "user_content"
    /\ runs = 0

NoBcast ==
    /\ connected_clients = {}
    /\ handlers = [c \in Clients |-> "none"]
    /\ broadcast = NotCalled

NoCtx ==
    /\ gsrsm_data = [modes |-> <<>>, transitions |-> <<>>]
    /\ mode_step_mapping = <<>>
    /\ mode_contexts = <<>>

\* the tools, the retry loop and the WebSocket handler have not run
NoTools ==
    /\ NoReg
    /\ NoState
    /\ NoRetry
    /\ NoXfer
    /\ NoBcast
    /\ NoCtx

InitCommon ==
    /\ pc = "build_modes"
    /\ NoTest
    /\ NoTools
    /\ bi = 1
    /\ modeKeys = <<>>
    /\ outgoing = <<>>
    /\ incoming = <<>>
    /\ transitions = <<>>
    /\ mode_to_step = <<>>
    /\ step_counter = 0
    /\ transition_counter = 0
    /\ lines = <<>>
    /\ result = <<>>
    /\ stack = <<>>

Init ==
    /\ modeRecs \in SynthModeLists
    /\ transRecs \in SeqsUpTo(SynthTransRecs, MaxTrans)
    /\ InitCommon

Next ==
    \/ build_modes
    \/ build_edges
    \/ generate
    \/ loop_back
    \/ single_transition
    \/ or_divergence
    \/ add_transition_to_mode
    \/ add_return
    \/ gen_resume
    \/ generate_return

Spec == Init /\ [][Next]_vars

----------------------------------------------------------------------------
(* Construction runs: mode and transition records of every shape the two   *)
(* loops of _build_graph distinguish                                       *)

BuildModeRecs ==
    {ModeRec(A1, NoText, TRUE), ModeRec(A1, NoText, FALSE),
     ModeRec(F1, NoText, TRUE), ModeRec(NoText, D1, TRUE),
     ModeRec(NoText, NoText, TRUE)}

BuildTransRecs ==
    {TransRec(A1, F1, "g1", TRUE), TransRec(A1, F1, "g1", FALSE),
     TransRec(A1, F1, Missing, TRUE), TransRec(F1, A1, "g2", TRUE),
     TransRec(A1, D1, "g1", TRUE), TransRec(A1, X1, "g1", TRUE),
     TransRec(X1, A1, "g2", TRUE), TransRec(A1, A1, "g1", TRUE)}

InitBuild ==
    /\ modeRecs \in SeqsUpTo(BuildModeRecs, MaxModeRecs)
    /\ transRecs \in SeqsUpTo(BuildTransRecs, MaxTransRecs)
    /\ InitCommon

NextBuild ==
    \/ build_modes
    \/ build_edges

SpecBuild == InitBuild /\ [][NextBuild]_vars

(* Ordering runs: activated modes whose ids exercise every case of the     *)
(* sort key, in every order                                                *)

OrderIds == {A1, A2, F1, D1, AX, AY, A01, A100, X1}

InitOrder ==
    /\ modeRecs \in SeqsUpTo({ModeRec(id, NoText, TRUE) : id \in OrderIds}, MaxModeRecs)
    /\ transRecs = <<>>
    /\ InitCommon

NextOrder ==
    \/ build_modes
    \/ build_edges
    \/ generate

SpecOrder == InitOrder /\ [][NextOrder]_vars

----------------------------------------------------------------------------
(* Reading a program: elements, nesting and control paths *)

IsStep(l) == l.k = "Step"
IsTransition(l) == l.k = "Transition"
IsElement(l) == IsStep(l) \/ IsTransition(l)

\* the Step line at i declares its step: no earlier Step line has its number
IsDeclaration(prog, i) ==
    /\ IsStep(prog[i])
    /\ \A j \in 1..(i - 1) : IsStep(prog[j]) => prog[j].n # prog[i].n

\* the Step line at i loops back to a step declared earlier
IsJump(prog, i) == IsStep(prog[i]) /\ ~IsDeclaration(prog, i)

\* number of divergences open before line i
Level(prog, i) ==
    Cardinality({j \in 1..(i - 1) : prog[j].k = "DivergenceOR"})
      - Cardinality({j \in 1..(i - 1) : prog[j].k = "EndDivergence"})

\* the 'Divergence OR' line that encloses line i (0 when there is none)
Owner(prog, i) ==
    LET ds == {d \in 1..(i - 1) : /\ prog[d].k = "DivergenceOR"
                                  /\ Level(prog, d) = Level(prog, i) - 1}
    IN  IF ds = {} THEN 0 ELSE CHOOSE d \in ds : \A e \in ds : e <= d

\* the 'Branch' lines of the divergence at line d, in order
BranchesOf(prog, d) ==
    {b \in DOMAIN prog : prog[b].k = "Branch" /\ Owner(prog, b) = d}

\* the 'EndBranch' line that closes the branch opened at line b (0: not closed)
EndOfBranch(prog, b) ==
    LET es == {e \in (b + 1)..Len(prog) : /\ prog[e].k = "EndBranch"
                                          /\ Level(prog, e) = Level(prog, b)}
    IN  IF es = {} THEN 0 ELSE CHOOSE e \in es : \A f \in es : e <= f

\* the elements that come last on the control paths ending at line p
RECURSIVE Preds(_, _)
Preds(prog, p) ==
    IF p <= 0 THEN {}
    ELSE IF IsElement(prog[p]) THEN {p}
    ELSE IF prog[p].k = "Branch" THEN Preds(prog, Owner(prog, p) - 1)
    ELSE IF prog[p].k = "EndDivergence"
         THEN UNION {Preds(prog, e - 1) :
                       e \in {e \in 1..(p - 1) : /\ prog[e].k = "EndBranch"
                                                 /\ Level(prog, e) = Level(prog, p)
                                                 /\ Owner(prog, e) = Owner(prog, p)}}
    ELSE Preds(prog, p - 1)

\* line i emits the step of a mode together with its LinkedFile
IsModeStep(prog, i) ==
    /\ IsStep(prog[i])
    /\ i < Len(prog)
    /\ prog[i + 1].k = "LinkedFile"

----------------------------------------------------------------------------
(* Properties of the synthesized program (specification Spec) *)

\* no element has a predecessor of its own kind on any control path
Alternates(prog) ==
    \A i \in DOMAIN prog :
        IsElement(prog[i]) =>
            \A p \in Preds(prog, i - 1) : prog[p].k # prog[i].k

\* C1: along every control path of the emitted program (top-level sequence,
\* entering every divergence branch) a Step is never followed by a Step and a
\* Transition never by a Transition; it holds of every prefix of the emission
\* and of the returned program.
C1_Alternation == Alternates(lines) /\ Alternates(result)

C1_Witness ==
    /\ pc = "done"
    /\ \E i \in DOMAIN result : result[i].k = "DivergenceOR"
    /\ \E i \in DOMAIN result : IsModeStep(result, i) /\ result[i].txt = "Macro"

\* the declarations of steps marked Initial
InitialDeclarations(prog) ==
    {i \in DOMAIN prog : IsDeclaration(prog, i) /\ prog[i].txt = "Initial"}

OneInitialStep(prog) ==
    /\ Cardinality(InitialDeclarations(prog)) = 1
    /\ \A i \in DOMAIN prog, j \in InitialDeclarations(prog) :
          (IsStep(prog[i]) /\ prog[i].txt = "Initial") => prog[i].n = prog[j].n

\* C2: the returned program declares exactly one step marked Initial, and
\* every line marked Initial names that step.
C2_OneInitialStep == pc = "done" => OneInitialStep(result)

C2_Witness ==
    /\ pc = "done"
    /\ Len(modeKeys) >= 2
    /\ \E m \in Range(modeKeys) : outgoing[m] = <<>>
    /\ Cardinality({i \in DOMAIN result : IsStep(result[i]) /\ result[i].txt = "Initial"}) >= 3

\* C3: emission never runs out of stack and never has two active calls of
\* _generate_transitions_from_mode for the same mode (a mode reached again
\* is closed with a Jump instead of being entered again).
C3_VisitedGuard ==
    /\ pc # "RecursionError"
    /\ \A i, j \in DOMAIN stack :
          (i < j /\ stack[i].f = "gen" /\ stack[j].f = "gen") => stack[i].m # stack[j].m

\* C4: the step of a mode with k >= 2 outgoing edges is continued by one
\* 'Divergence OR' with k branches, the i-th branch starting with a
\* Transition that carries the guard of the i-th outgoing edge; every
\* divergence continues the step of such a mode.
C4_DivergenceFanOut ==
    pc = "done" /\ modeKeys # <<>> =>
        /\ \A s \in DOMAIN result :
              (IsModeStep(result, s) /\ Len(outgoing[result[s + 1].m]) >= 2) =>
                  LET out == outgoing[result[s + 1].m]
                      d == s + 2
                      bs == BranchesOf(result, d)
                  IN  /\ d <= Len(result)
                      /\ result[d].k = "DivergenceOR"
                      /\ Cardinality(bs) = Len(out)
                      /\ \A b \in bs :
                            LET i == Cardinality({c \in bs : c <= b})
                            IN  /\ IsTransition(result[b + 1])
                                /\ result[b + 1].txt = out[i][2]
        /\ \A d \in DOMAIN result :
              result[d].k = "DivergenceOR" =>
                  /\ IsModeStep(result, d - 2)
                  /\ Len(outgoing[result[d - 1].m]) >= 2

C4_Witness ==
    /\ pc = "done"
    /\ \E m \in Range(modeKeys) :
          /\ Len(outgoing[m]) = 3
          /\ outgoing[m][1][2] # outgoing[m][2][2]
          /\ \E s \in DOMAIN result : IsModeStep(result, s) /\ result[s + 1].m = m

\* the last line of the branch opened at b, a trailing Jump left aside
LastOfBranch(prog, b) ==
    LET e == EndOfBranch(prog, b)
    IN  IF IsJump(prog, e - 1) THEN e - 2 ELSE e - 1

C6_LoopClosure ==
    pc = "done" /\ modeKeys # <<>> =>
        /\ \A s \in DOMAIN result :
              (IsModeStep(result, s) /\ outgoing[result[s + 1].m] = <<>>) =>
                  /\ s + 3 <= Len(result)
                  /\ IsTransition(result[s + 2])
                  /\ result[s + 2].txt = CYCLE_COMPLETE
                  /\ IsJump(result, s + 3)
                  /\ result[s + 3].n = 0
                  /\ result[s + 3].txt = "Initial"
                  /\ (s + 3 = Len(result) \/ result[s + 4].k = "EndBranch")
        /\ \A t \in DOMAIN result :
              (IsTransition(result[t]) /\ result[t].txt = CYCLE_COMPLETE) =>
                  /\ IsModeStep(result, t - 2)
                  /\ outgoing[result[t - 1].m] = <<>>

C6_Witness ==
    /\ pc = "done"
    /\ Len(modeKeys) = 3
    /\ \E t \in 3..(Len(result) - 2) :
          /\ IsTransition(result[t])
          /\ result[t].txt = CYCLE_COMPLETE
          /\ result[t - 2].n = 2
          /\ result[t + 2].k = "EndBranch"

\* C7: without activated modes generate() returns the header, the initial
\* Step 0, one Transition with guard TRUE and the Jump back to step 0; the
\* program has one initial step and alternates.
C7_EmptyGraph ==
    pc = "done" /\ modeKeys = <<>> =>
        /\ Len(result) = 4
        /\ result[1].k = "SFC"
        /\ IsDeclaration(result, 2) /\ result[2].n = 0 /\ result[2].txt = "Initial"
        /\ IsTransition(result[3]) /\ result[3].txt = "TRUE"
        /\ IsJump(result, 4) /\ result[4].n = 0
        /\ OneInitialStep(result)
        /\ Alternates(result)

C7_Witness ==
    /\ pc = "done"
    /\ modeKeys = <<>>
    /\ Len(modeRecs) = 3
    /\ transRecs # <<>>

----------------------------------------------------------------------------
(* Properties of the graph construction (specification SpecBuild) *)

\* the ids of the records that name an activated mode
ActivatedIds(recs) ==
    {ModeIdOf(recs[i]) : i \in {j \in DOMAIN recs : /\ recs[j].activated
                                                    /\ ModeIdOf(recs[j]) # NoText}}

\* the activated transition records between two activated modes, in record order
KeptRecs(ids) ==
    SelectSeq(transRecs, LAMBDA r : r.activated /\ r.fromMode \in ids /\ r.toMode \in ids)

GuardOfRec(r) == IF r.condition = Missing THEN "TRUE" ELSE r.condition

\* C8: the constructed graph holds exactly the activated modes, each once;
\* outgoing[s] lists, in record order, one (toMode, guard) per activated
\* record from s between activated modes, incoming[t] one (fromMode, guard)
\* per such record into t; every other record is dropped.
C8_GraphFilter ==
    pc = "built" =>
        LET ids == ActivatedIds(modeRecs)
            kept == KeptRecs(ids)
        IN  /\ Range(modeKeys) = ids
            /\ Len(modeKeys) = Cardinality(ids)
            /\ DOMAIN outgoing = ids
            /\ DOMAIN incoming = ids
            /\ transitions = kept
            /\ \A s \in ids :
                  LET outs == SelectSeq(kept, LAMBDA r : r.fromMode = s)
                      ins == SelectSeq(kept, LAMBDA r : r.toMode = s)
                  IN  /\ outgoing[s] = [i \in DOMAIN outs |->
                                          <<outs[i].toMode, GuardOfRec(outs[i])>>]
                      /\ incoming[s] = [i \in DOMAIN ins |->
                                          <<ins[i].fromMode, GuardOfRec(ins[i])>>]

C8_Witness ==
    /\ pc = "built"
    /\ Len(transitions) = 1
    /\ Len(transRecs) = 2
    /\ \E i \in DOMAIN transRecs :
          transRecs[i].activated /\ transRecs[i].toMode \notin Range(modeKeys)
    /\ \E i \in DOMAIN modeRecs : ~modeRecs[i].activated
    /\ Len(modeKeys) >= 2

----------------------------------------------------------------------------
(* Properties of the priority order (specification SpecOrder) *)

TierRank(m) == CASE m[1] = "A" -> 1 [] m[1] = "F" -> 2 [] m[1] = "D" -> 3

HasTier(m) == m[1] \in {"A", "F", "D"}

NumericSuffix(m) == isdigit(Tail(m))

\* x precedes y in the priority order as the specification states it
ClaimedBefore(x, y) ==
    /\ HasTier(x) /\ HasTier(y)
    /\ \/ TierRank(x) < TierRank(y)
       \/ /\ TierRank(x) = TierRank(y)
          /\ NumericSuffix(x)
          /\ \/ NumericSuffix(y) /\ int(Tail(x)) < int(Tail(y))
             \/ ~NumericSuffix(y)

\* C9: the n activated modes get the step ids 0..n-1, a mode of a lower tier
\* (A < F < D) before one of a higher tier, within a tier the smaller numeric
\* suffix first and every non-numeric suffix after every numeric one.
C9_StepNumbering ==
    pc = "emit" =>
        /\ DOMAIN mode_to_step = Range(modeKeys)
        /\ {mode_to_step[m] : m \in DOMAIN mode_to_step} = 0..(Len(modeKeys) - 1)
        /\ \A x, y \in Range(modeKeys) :
              ClaimedBefore(x, y) => mode_to_step[x] < mode_to_step[y]

\* dict key order of self.modes after the first loop of _build_graph
RECURSIVE KeysOf(_)
KeysOf(recs) ==
    IF recs = <<>> THEN <<>>
    ELSE LET before == KeysOf(SubSeq(recs, 1, Len(recs) - 1))
             rec == recs[Len(recs)]
             mode_id == ModeIdOf(rec)
         IN  IF mode_id # NoText /\ rec.activated /\ mode_id \notin Range(before)
             THEN Append(before, mode_id)
             ELSE before

\* the mode records in the order given by the permutation p of their indices
Permuted(recs, p) == [i \in DOMAIN recs |-> recs[p[i]]]

\* C10: any two distinct activated mode ids have different keys, and the
\* numbering is the one every permutation of the mode records produces.
C10_TotalOrder ==
    pc = "emit" =>
        /\ \A x, y \in Range(modeKeys) :
              x # y => \/ KeyLess(SortKey(x), SortKey(y))
                       \/ KeyLess(SortKey(y), SortKey(x))
        /\ \A p \in Permutations(DOMAIN modeRecs) :
              mode_to_step = AssignSteps(get_activated_modes(KeysOf(Permuted(modeRecs, p))))

----------------------------------------------------------------------------
(* Properties of the module's Key Rules (specification Spec) *)

\* C11: whenever a mode is activated, the first step of the generated
\* program is step 0, marked Initial, and its LinkedFile is "A1/default".
C11_StepZeroIsA1 ==
    (pc \in {"emit", "done", "RecursionError"} /\ modeKeys # <<>>) =>
        /\ Len(lines) >= 3
        /\ lines[2] = StepLine(0, 0, "Initial")
        /\ lines[3].k = "LinkedFile"
        /\ lines[3].m = A1

\* C12: every mode that has a step number appears in the returned program as
\* a Step with that number followed by the LinkedFile of the mode.
C12_AllModesBecomeSteps ==
    (pc = "done" /\ modeKeys # <<>>) =>
        \A m \in DOMAIN mode_to_step :
            \E i \in DOMAIN result :
                /\ IsModeStep(result, i)
                /\ result[i].n = mode_to_step[m]
                /\ result[i + 1].m = m

----------------------------------------------------------------------------
(* SFCAnalyzer and SimulationAgentLoop._test_single_mode                   *)
(* (agents/simulation_agent.py).  Guard texts, variable names and action   *)
(* names are sequences of characters; element ids are strings.             *)

D2 == <<"D", "2">>

UpperChars == <<"A", "B", "C", "D", "E", "F", "G", "H", "I", "J", "K", "L", "M",
                "N", "O", "P", "Q", "R", "S", "T", "U", "V", "W", "X", "Y", "Z">>
LowerChars == <<"a", "b", "c", "d", "e", "f", "g", "h", "i", "j", "k", "l", "m",
                "n", "o", "p", "q", "r", "s", "t", "u", "v", "w", "x", "y", "z">>

IndexIn(seq, c) == CHOOSE i \in DOMAIN seq : seq[i] = c

\* str.lower() and str.upper(), character by character
LowerChar(c) == IF c \in Range(UpperChars) THEN LowerChars[IndexIn(UpperChars, c)] ELSE c
UpperChar(c) == IF c \in Range(LowerChars) THEN UpperChars[IndexIn(LowerChars, c)] ELSE c
lower(s) == [i \in DOMAIN s |-> LowerChar(s[i])]
upper(s) == [i \in DOMAIN s |-> UpperChar(s[i])]

\* "kw in condition": kw is a substring of s
Contains(s, kw) ==
    \E i \in 1..(Len(s) - Len(kw) + 1) : SubSeq(s, i, i + Len(kw) - 1) = kw

\* the character classes of the pattern [A-Za-z_][A-Za-z0-9_]*
IsStartChar(c) == c \in Range(UpperChars) \cup Range(LowerChars) \cup {"_"}
IsContChar(c) == IsStartChar(c) \/ c \in DigitChars

\* last index of the longest run of continuation characters that starts at i
RunEnd(s, i) ==
    CHOOSE j \in i..Len(s) :
        /\ \A k \in i..j : IsContChar(s[k])
        /\ (j = Len(s) \/ ~IsContChar(s[j + 1]))

\* re.findall(r'[A-Za-z_][A-Za-z0-9_]*', condition), scanning from index i
RECURSIVE TokensFrom(_, _)
TokensFrom(s, i) ==
    IF i > Len(s) THEN <<>>
    ELSE IF IsStartChar(s[i])
         THEN <<SubSeq(s, i, RunEnd(s, i))>> \o TokensFrom(s, RunEnd(s, i) + 1)
         ELSE TokensFrom(s, i + 1)

findall(condition) == TokensFrom(condition, 1)

RECURSIVE Concat(_)
Concat(ss) == IF ss = <<>> THEN <<>> ELSE Head(ss) \o Concat(Tail(ss))

\* texts used by the analyzer
estop_keywords ==
    {<<"e", "s", "t", "o", "p">>, <<"e", "_", "s", "t", "o", "p">>,
     <<"e", "m", "e", "r", "g", "e", "n", "c", "y">>,
     <<"s", "t", "o", "p">>, <<"a", "r", "r", "e", "t">>,
     <<"u", "r", "g", "e", "n", "c", "e">>}

keywords ==
    {<<"A", "N", "D">>, <<"O", "R">>, <<"N", "O", "T">>, <<"T", "R", "U", "E">>,
     <<"F", "A", "L", "S", "E">>, <<"t", "r", "u", "e">>,
     <<"f", "a", "l", "s", "e">>, <<"T">>, <<"X">>}

----------------------------------------------------------------------------
(* Elements of a compiled SFC and validation issues *)

NoElement == "<none>"          \* ValidationIssue.element_id is None

Element(type, id, isInitial, stepType, actions, condition, sourceId, targetId) ==
    [type |-> type, id |-> id, isInitial |-> isInitial, stepType |-> stepType,
     actions |-> actions, condition |-> condition,
     sourceId |-> sourceId, targetId |-> targetId]

StepEl(id, isInitial, stepType, actions) ==
    Element("step", id, isInitial, stepType, actions, NoText, "", "")

TransEl(id, condition) ==
    Element("transition", id, FALSE, "", <<>>, condition, "", "")

ConnEl(sourceId, targetId) ==
    Element("connection", "", FALSE, "", <<>>, NoText, sourceId, targetId)

\* ValidationIssue: type, severity, the message (its template and the name
\* it quotes) and the element it refers to
Issue(issue_type, severity, message, element_id, name) ==
    [issue_type |-> issue_type, severity |-> severity, message |-> message,
     element_id |-> element_id, name |-> name]

ERROR == "error"
WARNING == "warning"

\* the issues of the elements of seq that satisfy Test, in order
IssuesOf(seq, Test(_), Make(_)) ==
    LET sel == SelectSeq(seq, Test)
    IN  [i \in DOMAIN sel |-> Make(sel[i])]

----------------------------------------------------------------------------
(* SFCAnalyzer.analyze and its checks *)

steps_of(elems) == SelectSeq(elems, LAMBDA e : e.type = "step")
transitions_of(elems) == SelectSeq(elems, LAMBDA e : e.type = "transition")
connections_of(elems) == SelectSeq(elems, LAMBDA e : e.type = "connection")

\* connections_from.get(x, []): targets of the connections that leave x
connections_from(conns, x) ==
    IF x = "" THEN <<>>
    ELSE LET sel == SelectSeq(conns, LAMBDA c : c.sourceId = x)
         IN  [i \in DOMAIN sel |-> sel[i].targetId]

\* connections_to.get(x, []): sources of the connections that enter x
connections_to(conns, x) ==
    IF x = "" THEN <<>>
    ELSE LET sel == SelectSeq(conns, LAMBDA c : c.targetId = x)
         IN  [i \in DOMAIN sel |-> sel[i].sourceId]

\* a traversal that stops at nodes that are not steps
FollowFrom_StepsOnly(conns, current, step_ids) ==
    IF current \in step_ids THEN connections_from(conns, current) ELSE <<>>

\* "for target in connections_from.get(current, [])"
FollowFrom(conns, current, step_ids) == connections_from(conns, current)

\* the while loop of _find_reachable_steps
RECURSIVE Bfs(_, _, _, _, _)
Bfs(queue, visited, reachable, conns, step_ids) ==
    IF queue = <<>> THEN reachable
    ELSE LET current == Head(queue)
         IN  IF current \in visited
             THEN Bfs(Tail(queue), visited, reachable, conns, step_ids)
             ELSE LET visited2 == visited \cup {current}
                      reachable2 == IF current \in step_ids
                                    THEN reachable \cup {current}
                                    ELSE reachable
                      targets == SelectSeq(FollowFrom(conns, current, step_ids),
                                           LAMBDA t : t \notin visited2)
                  IN  Bfs(Tail(queue) \o targets, visited2, reachable2, conns, step_ids)

find_reachable_steps(initial_steps, conns, steps) ==
    Bfs([i \in DOMAIN initial_steps |-> initial_steps[i].id], {}, {}, conns,
        {steps[i].id : i \in DOMAIN steps})

\* every step counts as initial
initial_steps_of_All(steps) == steps

\* initial_steps = [s for s in steps if s.get("isInitial", False)]
initial_steps_of(steps) == SelectSeq(steps, LAMBDA s : s.isInitial)

\* 1. Check for initial step
check_initial_step(initial_steps) ==
    IF initial_steps = <<>>
    THEN <<Issue("incorrect_sequencing", ERROR, "No initial step found", NoElement, NoText)>>
    ELSE <<>>

\* 2. Check for unreachable steps
check_unreachable(steps, reachable) ==
    IssuesOf(steps,
             LAMBDA s : s.id \notin reachable /\ ~s.isInitial,
             LAMBDA s : Issue("unreachable_step", ERROR, "is unreachable from initial state",
                              s.id, NoText))

\* a step counts as continued as soon as it has any outgoing connection
has_outgoing_transition_Any(outgoing_ids, transition_ids) == outgoing_ids # <<>>

\* has_outgoing_transition = any(t in transition_ids for t in outgoing)
has_outgoing_transition(outgoing_ids, transition_ids) ==
    \E i \in DOMAIN outgoing_ids : outgoing_ids[i] \in transition_ids

\* _check_dead_ends
check_dead_ends(steps, trans, conns) ==
    LET transition_ids == {trans[i].id : i \in DOMAIN trans}
    IN  IssuesOf(steps,
                 LAMBDA s : /\ ~has_outgoing_transition(connections_from(conns, s.id),
                                                        transition_ids)
                            /\ s.stepType \notin {"final", "enclosing"},
                 LAMBDA s : Issue("dead_end_transition", WARNING, "has no outgoing transitions",
                                  s.id, NoText))

\* a keyword match that compares the guard as written
has_estop_CaseSensitive(trans) ==
    \E i \in DOMAIN trans :
        \E kw \in estop_keywords : Contains(trans[i].condition, kw)

\* the loop of _check_estop_handling
has_estop(trans) ==
    \E i \in DOMAIN trans :
        \E kw \in estop_keywords : Contains(lower(trans[i].condition), kw)

\* _check_estop_handling
check_estop_handling(trans) ==
    IF ~has_estop(trans)
    THEN <<Issue("missing_estop", ERROR, "must have E-Stop condition handling", NoElement, NoText)>>
    ELSE <<>>

\* the test of one token in _check_undefined_variables
token_undefined(token, variables) ==
    /\ upper(token) \notin keywords
    /\ token \notin variables
    /\ (token[1] # "T" \/ Len(token) < 2)

\* _check_undefined_variables
check_undefined_variables(trans, variables) ==
    Concat([i \in DOMAIN trans |->
              IF trans[i].condition = NoText THEN <<>>
              ELSE IssuesOf(findall(trans[i].condition),
                            LAMBDA token : token_undefined(token, variables),
                            LAMBDA token : Issue("undefined_variable", WARNING,
                                                 "in condition is not defined",
                                                 trans[i].id, token))])

\* an action check that flags the actions that are known
action_undefined_Inverted(action_var, actions) ==
    action_var # NoText /\ action_var \in actions

\* "if action_var and action_var not in self.available_actions"
action_undefined(action_var, actions) ==
    action_var # NoText /\ action_var \notin actions

\* _check_undefined_actions
check_undefined_actions(steps, actions) ==
    Concat([i \in DOMAIN steps |->
              IssuesOf(steps[i].actions,
                       LAMBDA action_var : action_undefined(action_var, actions),
                       LAMBDA action_var : Issue("undefined_action", WARNING,
                                                 "in step is not defined",
                                                 steps[i].id, action_var))])

\* _check_return_path
check_return_path(initial_step, conns) ==
    Len(connections_to(conns, initial_step.id)) > 0

\* 7. Check for return path to initial
check_closed_loop(initial_steps, conns) ==
    IF initial_steps # <<>> /\ ~check_return_path(initial_steps[1], conns)
    THEN <<Issue("missing_return_path", WARNING, "No return path to initial step", NoElement, NoText)>>
    ELSE <<>>

\* SFCAnalyzer.analyze(sfc_json, mode_id)
analyze(elems, mode_id, variables, actions) ==
    LET steps == steps_of(elems)
        transitions_ == transitions_of(elems)
        conns == connections_of(elems)
        initial_steps == initial_steps_of(steps)
        reachable == find_reachable_steps(initial_steps, conns, steps)
    IN  check_initial_step(initial_steps)
          \o check_unreachable(steps, reachable)
          \o check_dead_ends(steps, transitions_, conns)
          \o (IF mode_id = D1 THEN check_estop_handling(transitions_) ELSE <<>>)
          \o check_undefined_variables(transitions_, variables)
          \o check_undefined_actions(steps, actions)
          \o check_closed_loop(initial_steps, conns)

----------------------------------------------------------------------------
(* SimulationAgentLoop._test_single_mode *)

FileNotFound ==
    Issue("incorrect_sequencing", ERROR, "SFC file not found for mode", NoElement, NoText)

CannotSimulate ==
    Issue("incorrect_sequencing", ERROR, "Cannot simulate: no initial step found", NoElement, NoText)

NoActiveSteps ==
    Issue("dead_end_transition", WARNING, "Simulation ended with no active steps", NoElement, NoText)

SimulationFailed ==
    Issue("safety_violation", WARNING, "Simulation failed", NoElement, NoText)

\* the issue lists _run_simulation_scenarios can return: the simulation
\* service and the HTTP library are outside the program
simulation_outcomes(elems) ==
    IF initial_steps_of(steps_of(elems)) = <<>>
    THEN {<<>>, <<CannotSimulate>>, <<SimulationFailed>>}
    ELSE {<<>>, <<NoActiveSteps>>, <<SimulationFailed>>}

\* a status that fails on any issue
status_of_AnyIssue(all_issues) ==
    IF all_issues # <<>> THEN "FAIL" ELSE "PASS"

\* has_errors = any(i.severity == IssueSeverity.ERROR for i in issues)
\* status = "FAIL" if has_errors else "PASS"
status_of(all_issues) ==
    IF \E i \in DOMAIN all_issues : all_issues[i].severity = ERROR THEN "FAIL" ELSE "PASS"

\* _extract_variable_names / _extract_action_names: the names that are not empty
extract_names(names) == SelectSeq(names, LAMBDA n : n # NoText)

\* SFCAnalyzer.__init__: set(available_variables), set(available_actions)
set(names) == Range(names)

\* an analyzer that remembers the names it met in guards
analyzer_after_Learns(variables, elems) ==
    variables \cup UNION {Range(findall(e.condition)) : e \in Range(transitions_of(elems))}

\* self.available_variables once analyze has returned: analyze and the
\* checks it calls assign no attribute of the analyzer
analyzer_after(variables, elems) == variables

\* 1. Load SFC file; a missing file ends the test
load_sfc_file ==
    /\ pc = "test"
    /\ \E found \in BOOLEAN :
         IF found
         THEN /\ pc' = "analyze"
              /\ UNCHANGED <<issues, status>>
         ELSE /\ issues' = <<FileNotFound>>
              /\ status' = "FAIL"
              /\ pc' = "tested"
    /\ UNCHANGED <<conductVars, testInputs, issues_again, toolVars>>

\* 2. Run static analysis
run_static_analysis ==
    /\ pc = "analyze"
    /\ issues' = issues \o analyze(elements, test_mode, available_variables, available_actions)
    /\ available_variables' = analyzer_after(available_variables, elements)
    /\ pc' = "simulate"
    /\ UNCHANGED <<conductVars, elements, available_actions, test_mode, io_context,
                   status, issues_again, toolVars>>

\* a second call of analyze with the same graph and mode id, on the same
\* analyzer or on a fresh one built from the same io_context
analyze_again ==
    /\ pc = "simulate"
    /\ \E fresh \in BOOLEAN :
         LET variables == IF fresh THEN set(extract_names(io_context.variables))
                                   ELSE available_variables
             actions == IF fresh THEN set(extract_names(io_context.actions))
                                 ELSE available_actions
         IN  /\ issues_again' = analyze(elements, test_mode, variables, actions)
             /\ available_variables' = analyzer_after(variables, elements)
             /\ available_actions' = actions
    /\ pc' = "repeated"
    /\ UNCHANGED <<conductVars, elements, test_mode, io_context, issues, status, toolVars>>

\* 3. Run simulation scenarios, 4. Determine pass/fail status
run_simulation_scenarios ==
    /\ pc = "simulate"
    /\ \E sim_issues \in simulation_outcomes(elements) :
         /\ issues' = issues \o sim_issues
         /\ status' = status_of(issues')
    /\ pc' = "tested"
    /\ UNCHANGED <<conductVars, testInputs, issues_again, toolVars>>

----------------------------------------------------------------------------
(* Analysis runs: compiled graphs, guard programs and action programs *)

PB_RESET == <<"P", "B", "_", "R", "E", "S", "E", "T">>
E_STOP == <<"E", "_", "S", "T", "O", "P">>
START == <<"S", "T", "A", "R", "T">>
TEMP == <<"T", "E", "M", "P">>
MOTOR == <<"M", "O", "T", "O", "R">>
VALVE == <<"V", "A", "L", "V", "E">>

GuardTexts ==
    {NoText,
     PB_RESET,
     \* "E_STOP OR PB_RESET"
     <<"E", "_", "S", "T", "O", "P", " ", "O", "R", " ", "P", "B", "_", "R", "E", "S", "E", "T">>,
     \* "Urgence"
     <<"U", "r", "g", "e", "n", "c", "e">>,
     \* "START AND NOT T1"
     <<"S", "T", "A", "R", "T", " ", "A", "N", "D", " ", "N", "O", "T", " ", "T", "1">>,
     TEMP,
     \* "x OR START"
     <<"x", " ", "O", "R", " ", "S", "T", "A", "R", "T">>,
     \* "X1&start"
     <<"X", "1", "&", "s", "t", "a", "r", "t">>}

\* names of io_context["variables"] and io_context["actions"]; a record
\* without a name gives the empty name
VariableLists == {<<>>, <<PB_RESET, NoText, E_STOP>>, <<PB_RESET, E_STOP, START, TEMP>>}
ActionLists == {<<>>, <<MOTOR>>, <<MOTOR, NoText, VALVE>>}
TestModes == {D1, D2, A1}

\* the connections a graph run draws from: through a transition, step to
\* step, through a node that is no element, back to S0, and with a missing end
CandidateConns ==
    <<ConnEl("S0", "T0"), ConnEl("T0", "S1"), ConnEl("S1", "S2"), ConnEl("S0", "Z"),
      ConnEl("Z", "S2"), ConnEl("S2", "S0"), ConnEl("T0", "S2"), ConnEl("S2", "T0"),
      ConnEl("", "S0"), ConnEl("S1", "")>>

\* the members of a set of numbers, ascending
Ascending(S) ==
    [i \in 1..Cardinality(S) |-> CHOOSE x \in S : Cardinality({y \in S : y < x}) = i - 1]

ConnLists ==
    {[i \in 1..Cardinality(S) |-> CandidateConns[Ascending(S)[i]]] :
        S \in {S \in SUBSET DOMAIN CandidateConns : Cardinality(S) <= MaxConns}}

GraphPrograms ==
    {<<StepEl("S0", i0, "", <<>>), StepEl("S1", i1, k1, <<>>), StepEl("S2", i2, k2, <<>>),
       TransEl("T0", NoText)>> \o conns :
        i0 \in BOOLEAN, i1 \in BOOLEAN, i2 \in BOOLEAN,
        k1 \in {"", "final"}, k2 \in {"", "enclosing"}, conns \in ConnLists}

GuardPrograms ==
    {<<StepEl("S0", TRUE, "", <<>>)>>
       \o [i \in DOMAIN gs |-> TransEl(IF i = 1 THEN "T0" ELSE IF i = 2 THEN "T1" ELSE "T2", gs[i])]
       \o <<ConnEl("S0", "T0"), ConnEl("T0", "S0")>> :
        gs \in SeqsUpTo(GuardTexts, MaxGuards)}

ActionPrograms ==
    {<<StepEl("S0", TRUE, "", a0), StepEl("S1", FALSE, "", a1), TransEl("T0", NoText),
       ConnEl("S0", "T0"), ConnEl("T0", "S1"), ConnEl("S1", "T0"), ConnEl("T0", "S0")>> :
        a0 \in SeqsUpTo({MOTOR, VALVE, NoText}, MaxActions),
        a1 \in SeqsUpTo({MOTOR, VALVE, NoText}, MaxActions)}

\* the Conduct generator has not run
NoConduct ==
    /\ modeRecs = <<>>
    /\ transRecs = <<>>
    /\ bi = 1
    /\ modeKeys = <<>>
    /\ outgoing = <<>>
    /\ incoming = <<>>
    /\ transitions = <<>>
    /\ mode_to_step = <<>>
    /\ step_counter = 0
    /\ transition_counter = 0
    /\ lines = <<>>
    /\ result = <<>>
    /\ stack = <<>>

\* SimulationAgentLoop.__init__ on an io_context and the file of one mode
AnalysisInputs ==
    /\ \/ /\ elements \in GraphPrograms
          /\ test_mode = A1
          /\ io_context = [variables |-> <<>>, actions |-> <<>>]
       \/ /\ elements \in GuardPrograms
          /\ test_mode \in TestModes
          /\ io_context \in [variables : VariableLists, actions : {<<>>}]
       \/ /\ elements \in ActionPrograms
          /\ test_mode = A1
          /\ io_context \in [variables : {<<>>}, actions : ActionLists]
    /\ available_variables = set(extract_names(io_context.variables))
    /\ available_actions = set(extract_names(io_context.actions))
    /\ issues = <<>>
    /\ issues_again = <<>>
    /\ status = ""

InitAnalyze ==
    /\ NoConduct
    /\ NoTools
    /\ pc = "test"
    /\ AnalysisInputs

NextAnalyze ==
    \/ load_sfc_file
    \/ run_static_analysis
    \/ run_simulation_scenarios

SpecAnalyze == InitAnalyze /\ [][NextAnalyze]_vars

(* Repeated analysis: two calls of analyze on the same input *)

InitRepeat ==
    /\ NoConduct
    /\ NoTools
    /\ pc = "analyze"
    /\ AnalysisInputs

NextRepeat ==
    \/ run_static_analysis
    \/ analyze_again

SpecRepeat == InitRepeat /\ [][NextRepeat]_vars

----------------------------------------------------------------------------
(* Reading an analysis: the graph that was analysed and the issues reported *)

\* analyze has returned and its issues are the whole issue list
Analysed == pc = "simulate"

StepElements == {e \in Range(elements) : e.type = "step"}
TransitionElements == {e \in Range(elements) : e.type = "transition"}
ConnectionElements == {e \in Range(elements) : e.type = "connection"}

\* how many reported issues satisfy P
Count(P(_)) == Cardinality({i \in DOMAIN issues : P(issues[i])})

\* node ids joined to the set R by one more connection; a missing end of a
\* connection is no node
RECURSIVE Closure(_)
Closure(R) ==
    LET N == R \cup {c.targetId : c \in {d \in ConnectionElements :
                                           d.sourceId # "" /\ d.sourceId \in R}}
    IN  IF N = R THEN R ELSE Closure(N)

\* the node ids a chain of connections reaches from some initial step
ReachedFromInitial == Closure({s.id : s \in {t \in StepElements : t.isInitial}})

\* C13: after analyze, every step that is not initial and that no chain of
\* connections (through steps, transitions or any other node id) reaches from
\* an initial step has exactly one UnreachableStep error referencing it, and
\* every initial or reached step has none.
C13_UnreachableSteps ==
    Analysed =>
        /\ \A s \in StepElements :
             Count(LAMBDA x : x.issue_type = "unreachable_step" /\ x.element_id = s.id)
               = IF ~s.isInitial /\ s.id \notin ReachedFromInitial THEN 1 ELSE 0
        /\ \A i \in DOMAIN issues :
             issues[i].issue_type = "unreachable_step" =>
                 /\ issues[i].severity = ERROR
                 /\ \E s \in StepElements : s.id = issues[i].element_id

\* S0 is the only initial step, S1 is reached through transition T0 and S2
\* is not reached: one issue, for S2
C13_Witness ==
    /\ Analysed
    /\ \A s \in StepElements : s.isInitial <=> s.id = "S0"
    /\ "S1" \in ReachedFromInitial
    /\ "S2" \notin ReachedFromInitial
    /\ Count(LAMBDA x : x.issue_type = "unreachable_step") = 1
    /\ \E i \in DOMAIN issues :
         issues[i].issue_type = "unreachable_step" /\ issues[i].element_id = "S2"

\* C14: after analyze, there is exactly one Error issue "no initial step"
\* when no step has isInitial true, and none when some step is initial.
C14_NoInitialStep ==
    Analysed =>
        Count(LAMBDA x : /\ x.issue_type = "incorrect_sequencing"
                         /\ x.severity = ERROR
                         /\ x.message = "No initial step found")
          = IF \A s \in StepElements : ~s.isInitial THEN 1 ELSE 0

C14_Witness ==
    /\ Analysed
    /\ StepElements # {}
    /\ \A s \in StepElements : ~s.isInitial
    /\ \E i \in DOMAIN issues :
         issues[i].message = "No initial step found" /\ issues[i].severity = ERROR

\* step s has an outgoing connection whose target is a transition
LeadsToTransition(s) ==
    \E c \in ConnectionElements :
        /\ c.sourceId = s.id
        /\ \E t \in TransitionElements : t.id = c.targetId

\* C15: after analyze, every step has exactly one DeadEndTransition warning
\* referencing it when none of its outgoing connections targets a transition
\* and its kind is neither final nor enclosing, and none otherwise.
C15_DeadEnds ==
    Analysed =>
        /\ \A s \in StepElements :
             Count(LAMBDA x : x.issue_type = "dead_end_transition" /\ x.element_id = s.id)
               = IF ~LeadsToTransition(s) /\ s.stepType \notin {"final", "enclosing"}
                 THEN 1 ELSE 0
        /\ \A i \in DOMAIN issues :
             issues[i].issue_type = "dead_end_transition" => issues[i].severity = WARNING

\* S1 only leads to another step and is flagged, S0 leads to a transition and
\* a terminal step without outgoing connections is not flagged
C15_Witness ==
    /\ Analysed
    /\ \E c \in ConnectionElements : c.sourceId = "S1" /\ c.targetId = "S2"
    /\ \E i \in DOMAIN issues :
         issues[i].issue_type = "dead_end_transition" /\ issues[i].element_id = "S1"
    /\ \E s \in StepElements :
         /\ LeadsToTransition(s)
         /\ \A i \in DOMAIN issues : issues[i].element_id # s.id
    /\ \E s \in StepElements :
         /\ s.stepType = "enclosing"
         /\ ~LeadsToTransition(s)
         /\ \A i \in DOMAIN issues :
              issues[i].issue_type = "dead_end_transition" => issues[i].element_id # s.id

\* text s contains kw whatever the case of its letters (kw is lower case)
ContainsAnyCase(s, kw) ==
    \E i \in 1..(Len(s) - Len(kw) + 1) :
        \A k \in 1..Len(kw) : s[i + k - 1] \in {kw[k], UpperChar(kw[k])}

\* some transition guard contains a keyword of the emergency vocabulary
GuardsNameEmergency ==
    \E t \in TransitionElements :
        \E kw \in estop_keywords : ContainsAnyCase(t.condition, kw)

BooleanKeywords ==
    {<<"A", "N", "D">>, <<"O", "R">>, <<"N", "O", "T">>,
     <<"T", "R", "U", "E">>, <<"F", "A", "L", "S", "E">>}

\* a timer reference: the letter T followed by the number of the timer
IsTimerReference(token) ==
    /\ Len(token) >= 2
    /\ token[1] = "T"
    /\ \A k \in 2..Len(token) : token[k] \in DigitChars

\* C17: after analyze, every identifier token of every transition guard that
\* is not a boolean keyword (AND, OR, NOT, TRUE, FALSE, in any case), is not a
\* timer reference and is not a known variable has an UndefinedVariable
\* warning referencing that transition, and no token that is a known variable
\* has one.
C17_UndefinedVariables ==
    Analysed =>
        \A t \in TransitionElements :
            \A token \in Range(findall(t.condition)) :
                /\ (/\ upper(token) \notin BooleanKeywords
                    /\ ~IsTimerReference(token)
                    /\ token \notin available_variables)
                   => \E i \in DOMAIN issues :
                         /\ issues[i].issue_type = "undefined_variable"
                         /\ issues[i].severity = WARNING
                         /\ issues[i].element_id = t.id
                         /\ issues[i].name = token
                /\ token \in available_variables
                   => \A i \in DOMAIN issues :
                         issues[i].issue_type = "undefined_variable" =>
                             issues[i].name # token

\* how many times x occurs in the sequence seq
Occurrences(seq, x) == Cardinality({k \in DOMAIN seq : seq[k] = x})

\* C18: after analyze, for every step and every action identifier referenced
\* on it, the UndefinedAction warnings referencing that step and naming that
\* identifier are one per reference when the identifier is absent from the
\* known action set, and none when it is in the set; a reference that names
\* no identifier is not reported.
C18_UndefinedActions ==
    Analysed =>
        /\ \A s \in StepElements :
             \A a \in Range(s.actions) \ {NoText} :
                 Count(LAMBDA x : /\ x.issue_type = "undefined_action"
                                  /\ x.element_id = s.id
                                  /\ x.name = a)
                   = IF a \notin available_actions THEN Occurrences(s.actions, a) ELSE 0
        /\ \A i \in DOMAIN issues :
             issues[i].issue_type = "undefined_action" =>
                 /\ issues[i].severity = WARNING
                 /\ issues[i].name # NoText
                 /\ \E s \in StepElements :
                      s.id = issues[i].element_id /\ issues[i].name \in Range(s.actions)

\* a step that references the known MOTOR and the unknown VALVE: only VALVE
\* is reported
C18_Witness ==
    /\ Analysed
    /\ available_actions = {MOTOR}
    /\ \E s \in StepElements :
         /\ s.actions = <<MOTOR, VALVE>>
         /\ \E i \in DOMAIN issues :
              /\ issues[i].issue_type = "undefined_action"
              /\ issues[i].element_id = s.id
              /\ issues[i].name = VALVE
         /\ \A i \in DOMAIN issues :
              issues[i].element_id = s.id => issues[i].name # MOTOR

\* step s has a connection that enters it
HasIncoming(s) == \E c \in ConnectionElements : c.targetId = s.id

\* C19: after analyze, there is a MissingReturnPath warning whenever some
\* initial step has no incoming connection, and none when every initial step
\* has at least one.
C19_MissingReturnPath ==
    Analysed =>
        /\ (\E s \in StepElements : s.isInitial /\ ~HasIncoming(s))
              => \E i \in DOMAIN issues :
                    issues[i].issue_type = "missing_return_path" /\ issues[i].severity = WARNING
        /\ (\A s \in StepElements : s.isInitial => HasIncoming(s))
              => \A i \in DOMAIN issues : issues[i].issue_type # "missing_return_path"

\* the test of the mode has returned its result
Tested == pc = "tested"

\* C20: the status of a mode's test result is FAIL exactly when its issue
\* list holds at least one issue of severity Error, and PASS otherwise.
C20_StatusDerivation ==
    Tested =>
        /\ status \in {"FAIL", "PASS"}
        /\ status = "FAIL" <=> \E i \in DOMAIN issues : issues[i].severity = ERROR

\* a result whose issues are all warnings passes
C20_Witness ==
    /\ Tested
    /\ issues # <<>>
    /\ \A i \in DOMAIN issues : issues[i].severity = WARNING
    /\ status = "PASS"

\* the repeated call of analyze has returned
Repeated == pc = "repeated"

SuppliedIds == {e.id : e \in StepElements \cup TransitionElements}

\* a connection with an end that is neither a supplied step nor a supplied
\* transition
Malformed(c) == c.sourceId \notin SuppliedIds \/ c.targetId \notin SuppliedIds

\* C22: after analyze, when the graph holds a connection whose source or
\* target is neither a supplied step id nor a supplied transition id, the
\* issue list holds an IncorrectSequencing error reported for a connection
\* (the only other IncorrectSequencing error of analyze is the one for a
\* missing initial step).
C22_MalformedConnections ==
    Analysed =>
        ((\E c \in ConnectionElements : Malformed(c)) =>
            \E i \in DOMAIN issues :
                /\ issues[i].issue_type = "incorrect_sequencing"
                /\ issues[i].severity = ERROR
                /\ issues[i].message # "No initial step found")

----------------------------------------------------------------------------
(* RegisterModeAgentsTool.register_mode_agents and create_configured_swarm  *)
(* (agents/adk_swarm.py).  ParallelAgent 1 is the module-level default      *)
(* "ModesSFCParallel"; the k-th configured swarm owns ParallelAgent k + 1.  *)

\* str(n) of a number below ten
str(n) == <<CHOOSE c \in DigitChars : DigitVal(c) = n>>

\* an entry of modes: NoText stands for a missing key
RegMode(id, code) == [id |-> id, code |-> code]

\* mode.get("id") or mode.get("code", f"M{i+1}"), i counted from 1 here
mode_id_of(mode, i) ==
    IF mode.id # NoText THEN mode.id
    ELSE IF mode.code # NoText THEN mode.code
    ELSE <<"M">> \o str(i)

\* create_mode_sfc_agent: LlmAgent(name=f"ModeSFC_{mode_id}", ...)
create_mode_sfc_agent(mode_id) ==
    [name |-> <<"M", "o", "d", "e", "S", "F", "C", "_">> \o mode_id, mode_id |-> mode_id]

\* the custom ParallelAgent of the k-th configured swarm
ParallelOf(k) == k + 1

\* a registration that keeps the earlier sub-agents
cleared_Kept(agents) == agents

\* modes_parallel_agent.sub_agents.clear()
cleared(agents) == <<>>

RegModeLists ==
    {<<>>,
     <<RegMode(A1, NoText)>>,
     <<RegMode(A1, NoText), RegMode(F1, NoText)>>,
     <<RegMode(NoText, D1), RegMode(NoText, NoText)>>,
     <<RegMode(A1, NoText), RegMode(A1, NoText)>>}

\* register_mode_agents(modes), called by the ConductSFCAgent of swarm
\* caller (0: called outside any configured swarm)
register_mode_agents ==
    /\ pc = "serve"
    /\ \E caller \in 0..(Len(sub_agents) - 1), modes \in RegModeLists :
         LET agents == [i \in DOMAIN modes |-> create_mode_sfc_agent(mode_id_of(modes[i], i))]
             registered_agents ==
                 [i \in DOMAIN modes |-> [mode_id |-> agents[i].mode_id,
                                          agent_name |-> agents[i].name]]
         IN  /\ sub_agents' = [sub_agents EXCEPT ![modes_parallel_agent] = cleared(@) \o agents]
             /\ register_result' =
                   [caller |-> caller, modes |-> modes,
                    held_before |-> Len(sub_agents[modes_parallel_agent]),
                    success |-> TRUE,
                    registered_count |-> Len(registered_agents),
                    agents |-> registered_agents]
    /\ UNCHANGED <<pc, modes_parallel_agent, conductVars, testVars, notRegVars>>

\* create_configured_swarm: a new ParallelAgent, and the global names it
create_configured_swarm ==
    /\ pc = "serve"
    /\ Len(sub_agents) - 1 < MaxSwarms
    /\ sub_agents' = Append(sub_agents, <<>>)
    /\ modes_parallel_agent' = Len(sub_agents) + 1
    /\ UNCHANGED <<pc, register_result, conductVars, testVars, notRegVars>>

InitRegister ==
    /\ NoConduct
    /\ NoTest
    /\ NoTools
    /\ pc = "serve"

NextRegister ==
    \/ register_mode_agents
    \/ create_configured_swarm

SpecRegister == InitRegister /\ [][NextRegister]_vars

\* a step in which register_mode_agents ran
RegisterStep ==
    /\ modes_parallel_agent' = modes_parallel_agent
    /\ (register_result' # register_result \/ sub_agents' # sub_agents)

\* the agents a list of modes asks for, one per entry
AgentsFor(modes) ==
    [i \in DOMAIN modes |->
        LET id == IF modes[i].id # NoText THEN modes[i].id
                  ELSE IF modes[i].code # NoText THEN modes[i].code
                  ELSE <<"M">> \o str(i)
        IN  [name |-> <<"M", "o", "d", "e", "S", "F", "C", "_">> \o id, mode_id |-> id]]

\* C23: when register_mode_agents(modes) returns, success is true,
\* registered_count is the number of entries of modes, every mode id of
\* modes has a registered agent, and the ModesSFCParallel agent holds exactly
\* one sub-agent per entry of modes, whatever it held before the call.
C23_Registration ==
    [][RegisterStep =>
         LET r == register_result'
         IN  /\ r.success
             /\ r.registered_count = Len(r.modes)
             /\ \A i \in DOMAIN r.modes :
                  r.modes[i].id # NoText =>
                      \E j \in DOMAIN r.agents : r.agents[j].mode_id = r.modes[i].id
             /\ sub_agents'[modes_parallel_agent'] = AgentsFor(r.modes)]_vars

\* a registration of two modes into a parallel agent that held sub-agents
C23_Witness ==
    /\ register_result.success
    /\ register_result.held_before >= 1
    /\ Len(register_result.modes) = 2
    /\ Len(sub_agents[modes_parallel_agent]) = 2

\* C28: a register_mode_agents call made by the ConductSFCAgent of a
\* configured swarm fills the ParallelAgent of that swarm and leaves the
\* ParallelAgent of every other swarm as it was.
C28_OwnSwarm ==
    [][(RegisterStep /\ register_result'.caller >= 1) =>
         LET own == ParallelOf(register_result'.caller)
         IN  /\ sub_agents'[own] = AgentsFor(register_result'.modes)
             /\ \A k \in DOMAIN sub_agents : k # own => sub_agents'[k] = sub_agents[k]]_vars

----------------------------------------------------------------------------
(* CompileAndSaveSFCTool.compile_and_save_sfc (agents/compile_save_tool.py) *)
(* and GetSFCContentTool.get_sfc_from_state (agents/get_sfc_tool.py) on one *)
(* shared tool_context                                                      *)

DotSfc == <<".", "s", "f", "c">>
default == <<"d", "e", "f", "a", "u", "l", "t">>
default_sfc == default \o DotSfc

\* str.endswith
endswith(s, suffix) ==
    Len(s) >= Len(suffix) /\ SubSeq(s, Len(s) - Len(suffix) + 1, Len(s)) = suffix

\* f"{sfc_name}.sfc" if not sfc_name.endswith(".sfc") else sfc_name
with_extension(sfc_name) ==
    IF endswith(sfc_name, DotSfc) THEN sfc_name ELSE sfc_name \o DotSfc

\* the entry of a compile that was saved
saved_file(sfc_name, mode_id, sfc_code) ==
    [name |-> with_extension(sfc_name), mode_id |-> mode_id, success |-> TRUE,
     sfc_code |-> sfc_code, sfc_content |-> "compiled " \o sfc_code]

\* the entry of a compile whose local save failed: it has no sfc_code and no
\* sfc_content key
failed_file(sfc_name, mode_id) ==
    [name |-> sfc_name \o DotSfc, mode_id |-> mode_id, success |-> FALSE,
     sfc_code |-> "", sfc_content |-> "{}"]

\* how a call of compile_and_save_sfc can go: the compiler service and the
\* file system are outside the program
CompileOutcomes ==
    {"Compilation failed", "Compiler returned no SFC data", "Failed to create directory",
     "saved", "Local save failed", "exception"}

compile_and_save_sfc ==
    /\ pc = "serve"
    /\ Len(sfc_files) < MaxFiles
    /\ \E sfc_code \in {"v1", "v2"}, mode_id \in {NoText, A1},
          sfc_name \in {default, default_sfc}, outcome \in CompileOutcomes :
         CASE outcome = "saved" ->
                /\ sfc_files' = Append(sfc_files, saved_file(sfc_name, mode_id, sfc_code))
                /\ compile_result' = [success |-> TRUE, error |-> ""]
           [] outcome = "Local save failed" ->
                /\ sfc_files' = Append(sfc_files, failed_file(sfc_name, mode_id))
                /\ compile_result' = [success |-> FALSE, error |-> outcome]
           [] OTHER ->
                /\ sfc_files' = sfc_files
                /\ compile_result' = [success |-> FALSE, error |-> outcome]
    /\ UNCHANGED <<pc, get_result, conductVars, testVars, notStateVars>>

\* a match on the name alone
matches_NameOnly(sfc_file, sfc_name, mode_id) == sfc_file.name = sfc_name

\* "if file_name == sfc_name and file_mode_id == mode_id"
matches(sfc_file, sfc_name, mode_id) ==
    sfc_file.name = sfc_name /\ sfc_file.mode_id = mode_id

\* the value get_sfc_from_state(sfc_name, mode_id) returns on the state files
get_from_state(files, sfc_name, mode_id) ==
    LET name == with_extension(sfc_name)
        found == {i \in DOMAIN files : matches(files[i], name, mode_id)}
    IN  IF files = <<>>
        THEN [success |-> FALSE, error |-> "No SFC files found in state",
              sfc_name |-> sfc_name, mode_id |-> mode_id,
              sfc_code |-> "", sfc_content |-> "", available_sfcs |-> <<>>]
        ELSE IF found # {}
        THEN LET sfc_file == files[CHOOSE i \in found : \A j \in found : i <= j]
             IN  [success |-> TRUE, error |-> "",
                  sfc_name |-> name, mode_id |-> mode_id,
                  sfc_code |-> sfc_file.sfc_code, sfc_content |-> sfc_file.sfc_content,
                  available_sfcs |-> <<>>]
        ELSE [success |-> FALSE, error |-> "not found in state",
              sfc_name |-> name, mode_id |-> mode_id,
              sfc_code |-> "", sfc_content |-> "",
              available_sfcs |-> [i \in DOMAIN files |-> <<files[i].name, files[i].mode_id>>]]

get_sfc_from_state ==
    /\ pc = "serve"
    /\ \E sfc_name \in {default, default_sfc}, mode_id \in {NoText, A1, F1} :
         get_result' = get_from_state(sfc_files, sfc_name, mode_id)
    /\ pc' = "looked_up"
    /\ UNCHANGED <<sfc_files, compile_result, conductVars, testVars, notStateVars>>

InitState ==
    /\ NoConduct
    /\ NoTest
    /\ NoTools
    /\ pc = "serve"

NextState ==
    \/ compile_and_save_sfc
    \/ get_sfc_from_state

SpecState == InitState /\ [][NextState]_vars

\* get_sfc_from_state has returned
LookedUp == pc = "looked_up"

\* the name the lookup searched for
SearchedName ==
    IF get_result.success \/ get_result.error = "not found in state"
    THEN get_result.sfc_name
    ELSE IF endswith(get_result.sfc_name, DotSfc) THEN get_result.sfc_name
         ELSE get_result.sfc_name \o DotSfc

\* the entries of the state a lookup of (name, mode id) is about
EntriesFor(name, mode_id) ==
    {i \in DOMAIN sfc_files : sfc_files[i].name = name /\ sfc_files[i].mode_id = mode_id}

\* C24: get_sfc_from_state(sfc_name, mode_id) returns success, with the
\* sfc_code and sfc_content of a matching entry, exactly when the state holds
\* an entry whose name is sfc_name (with ".sfc" appended when missing) and
\* whose mode_id is the requested one; otherwise it returns success false,
\* with the list of available SFCs when the state holds any; the call leaves
\* the state as it was.
C24_StateLookup ==
    [][pc' = "looked_up" =>
         LET r == get_result'
             name == IF r.success \/ r.error = "not found in state" THEN r.sfc_name
                     ELSE IF endswith(r.sfc_name, DotSfc) THEN r.sfc_name
                     ELSE r.sfc_name \o DotSfc
             hits == {i \in DOMAIN sfc_files :
                        sfc_files[i].name = name /\ sfc_files[i].mode_id = r.mode_id}
         IN  /\ r.success <=> hits # {}
             /\ r.success =>
                  \E i \in hits : /\ r.sfc_code = sfc_files[i].sfc_code
                                  /\ r.sfc_content = sfc_files[i].sfc_content
             /\ ~r.success => (r.available_sfcs # <<>> <=> sfc_files # <<>>)
             /\ ~r.success => Len(r.available_sfcs) \in {0, Len(sfc_files)}
             /\ sfc_files' = sfc_files]_vars

\* a root file (empty mode id) found among entries of the same name under a
\* mode
C24_Witness ==
    /\ LookedUp
    /\ get_result.success
    /\ get_result.mode_id = NoText
    /\ get_result.sfc_code = "v2"
    /\ \E i \in DOMAIN sfc_files :
         sfc_files[i].name = get_result.sfc_name /\ sfc_files[i].mode_id = A1

\* C29: after any sequence of compile_and_save_sfc calls on one
\* tool_context, a lookup that succeeds returns the sfc_code of the most
\* recent successful compile of that (name, mode id), a lookup of a
\* (name, mode id) that has a successful compile succeeds, and no lookup
\* succeeds on an entry recorded by a failed save.
C29_LatestCompileWins ==
    LookedUp =>
        LET hits == EntriesFor(SearchedName, get_result.mode_id)
            good == {i \in hits : sfc_files[i].success}
        IN  /\ good # {} =>
                 /\ get_result.success
                 /\ get_result.sfc_code =
                       sfc_files[CHOOSE i \in good : \A j \in good : j <= i].sfc_code
            /\ get_result.success => good # {}

----------------------------------------------------------------------------
(* SFCProgrammerLoop._process_single_file (agents/sfc_programmer.py) *)

MAX_RETRIES == 3

\* what one call of _call_agent can do: return a response that reports
\* success, return one that does not (with or without an "error" key), or
\* raise
AgentOutcomes ==
    {[kind |-> "success", error |-> Missing],
     [kind |-> "failure", error |-> "E1"],
     [kind |-> "failure", error |-> Missing],
     [kind |-> "raise", error |-> "X1"],
     [kind |-> "raise", error |-> "X2"]}

\* an error report that forgets what the agent said
error_of_Unknown(outcome) == "Unknown error"

\* response.get("error", "Unknown error") of a failed response, str(e) of an
\* exception
error_of(outcome) ==
    IF outcome.kind = "raise" THEN outcome.error
    ELSE IF outcome.error = Missing THEN "Unknown error"
    ELSE outcome.error

\* one iteration of "for attempt in range(1, self.MAX_RETRIES + 1)"
process_attempt ==
    /\ pc = "retry"
    /\ attempt <= MAX_RETRIES
    /\ \E outcome \in AgentOutcomes :
         /\ calls' = Append(calls, [attempt |-> attempt, previous_error |-> previous_error,
                                    outcome |-> outcome])
         /\ IF outcome.kind = "success"
            THEN /\ file_result' = [success |-> TRUE, attempts |-> attempt, error |-> None]
                 /\ pc' = "returned"
                 /\ UNCHANGED <<attempt, previous_error>>
            ELSE /\ previous_error' = error_of(outcome)
                 /\ attempt' = attempt + 1
                 /\ UNCHANGED <<pc, file_result>>
    /\ UNCHANGED <<conductVars, testVars, notRetryVars>>

\* All retries exhausted
retries_exhausted ==
    /\ pc = "retry"
    /\ attempt > MAX_RETRIES
    /\ file_result' = [success |-> FALSE, attempts |-> MAX_RETRIES, error |-> previous_error]
    /\ pc' = "returned"
    /\ UNCHANGED <<attempt, previous_error, calls, conductVars, testVars, notRetryVars>>

InitRetry ==
    /\ NoConduct
    /\ NoTest
    /\ NoTools
    /\ pc = "retry"

NextRetry ==
    \/ process_attempt
    \/ retries_exhausted

SpecRetry == InitRetry /\ [][NextRetry]_vars

\* the error a call left behind, as the caller of the agent sees it
ErrorLeftBy(call) ==
    IF call.outcome.kind = "failure" /\ call.outcome.error = Missing THEN "Unknown error"
    ELSE call.outcome.error

\* C25: _process_single_file calls the agent at most MAX_RETRIES (3) times,
\* calls it again only after a failed or raising attempt and then passes
\* that attempt's error on, and returns success with attempts equal to the
\* number of the successful attempt, or failure with attempts 3 and the last
\* error when all three attempts fail or raise.
C25_BoundedRetry ==
    /\ Len(calls) <= MAX_RETRIES
    /\ \A i \in DOMAIN calls :
         /\ calls[i].attempt = i
         /\ calls[i].previous_error = IF i = 1 THEN None ELSE ErrorLeftBy(calls[i - 1])
         /\ i < Len(calls) => calls[i].outcome.kind # "success"
    /\ pc = "returned" =>
         IF \E i \in DOMAIN calls : calls[i].outcome.kind = "success"
         THEN /\ file_result.success
              /\ file_result.attempts = Len(calls)
              /\ calls[Len(calls)].outcome.kind = "success"
         ELSE /\ ~file_result.success
              /\ Len(calls) = MAX_RETRIES
              /\ file_result.attempts = MAX_RETRIES
              /\ file_result.error = ErrorLeftBy(calls[MAX_RETRIES])

\* a failed attempt, a raising attempt, then success on the third attempt
C25_Witness ==
    /\ pc = "returned"
    /\ file_result.success
    /\ file_result.attempts = 3
    /\ calls[1].outcome.kind = "failure"
    /\ calls[2].outcome.kind = "raise"
    /\ calls[3].previous_error = "X1"

----------------------------------------------------------------------------
(* websocket_vibe_endpoint: the transfer loop of one user message           *)
(* (agents/orchestrator.py)                                                 *)

max_transfer_iterations == 10

TransferTargets == {"ConductSFCAgent", "ModesSFCParallel", "SimulationAgent"}

\* the transfer_to_agent actions one run of the runner can record
TransferLists == SeqsUpTo(TransferTargets, 2)

\* f"Continue with the next step. Execute {target_agent} now."
continuation_text(target_agent) ==
    "Continue with the next step. Execute " \o target_agent \o " now."

\* one iteration of "while transfer_iteration <= max_transfer_iterations":
\* a run of the runner to its last event, then the check of pending_transfers
run_iteration ==
    /\ pc = "transfer_loop"
    /\ transfer_iteration <= max_transfer_iterations
    /\ transfer_iteration' = transfer_iteration + 1
    /\ runs' = runs + 1
    /\ \E recorded \in TransferLists, raised \in BOOLEAN :
         /\ pending_transfers' = recorded
         /\ IF raised
            THEN /\ pc' = "runtime_error"
                 /\ UNCHANGED current_message
            ELSE IF recorded # <<>>
            THEN /\ current_message' = continuation_text(recorded[1])
                 /\ UNCHANGED pc
            ELSE /\ pc' = "run_completed"
                 /\ UNCHANGED current_message
    /\ UNCHANGED <<conductVars, testVars, notXferVars>>

\* the loop condition fails: "Max transfer iterations reached"
max_iterations_reached ==
    /\ pc = "transfer_loop"
    /\ transfer_iteration > max_transfer_iterations
    /\ pc' = "run_completed"
    /\ UNCHANGED <<xferVars, conductVars, testVars, notXferVars>>

InitTransfer ==
    /\ NoConduct
    /\ NoTest
    /\ NoTools
    /\ pc = "transfer_loop"

NextTransfer ==
    \/ run_iteration
    \/ max_iterations_reached

SpecTransfer == InitTransfer /\ [][NextTransfer]_vars

\* C26: while handling one user message the handler starts the runner at
\* most max_transfer_iterations (10) times, is about to start another run
\* only when the previous run recorded a transfer, and once a run records
\* none it starts no other.
C26_BoundedTransfers ==
    /\ runs <= max_transfer_iterations
    /\ (runs >= 1 /\ pc = "transfer_loop") => pending_transfers # <<>>
    /\ (runs >= 1 /\ pc = "transfer_loop") =>
           current_message = "Continue with the next step. Execute "
                             \o pending_transfers[1] \o " now."

----------------------------------------------------------------------------
(* broadcast_to_clients and the WebSocket handlers that add themselves to   *)
(* and remove themselves from connected_clients (agents/orchestrator.py).   *)
(* Coroutines of one event loop interleave only where one of them awaits:   *)
(* each action below runs from one await to the next.                       *)

\* "for client in connected_clients" asks the set iterator for its next
\* element: the iterator raises RuntimeError("Set changed size during
\* iteration") when the set no longer has the size it had when the loop
\* began; when it is exhausted the clean-up loop discards the clients whose
\* send failed and the call returns sent; otherwise client.send_text is
\* awaited, and either returns (sent += 1) or raises (disconnected.add).
next_client(b) ==
    IF Cardinality(connected_clients) # b.used
    THEN /\ broadcast' = [b EXCEPT !.at = "raised"]
         /\ UNCHANGED connected_clients
    ELSE IF b.pending = {}
    THEN /\ connected_clients' = connected_clients \ b.disconnected
         /\ broadcast' = [b EXCEPT !.at = "returned", !.result = b.sent]
    ELSE /\ \E client \in b.pending, failed \in BOOLEAN :
              broadcast' =
                 IF failed
                 THEN [b EXCEPT !.at = "awaiting",
                                !.pending = @ \ {client},
                                !.disconnected = @ \cup {client}]
                 ELSE [b EXCEPT !.at = "awaiting",
                                !.pending = @ \ {client},
                                !.sent = @ + 1,
                                !.delivered = @ \cup {client}]
         /\ UNCHANGED connected_clients

\* broadcast_to_clients(payload) up to its first await
broadcast_to_clients ==
    /\ pc = "broadcast"
    /\ broadcast.at = "idle"
    /\ IF connected_clients = {}
       THEN /\ broadcast' = [broadcast EXCEPT !.at = "returned", !.result = 0]
            /\ UNCHANGED connected_clients
       ELSE next_client([broadcast EXCEPT !.used = Cardinality(connected_clients),
                                          !.pending = connected_clients])
    /\ UNCHANGED <<pc, handlers, conductVars, testVars, notBcastVars>>

\* the awaited send_text is over: the loop goes on
send_completed ==
    /\ pc = "broadcast"
    /\ broadcast.at = "awaiting"
    /\ next_client(broadcast)
    /\ UNCHANGED <<pc, handlers, conductVars, testVars, notBcastVars>>

\* websocket_vibe_endpoint after "await websocket.accept()":
\* connected_clients.add(websocket).  A running iteration over the set
\* reaches the new element or not, depending on the slot it falls into.
connect ==
    /\ pc = "broadcast"
    /\ \E websocket \in Clients :
         /\ handlers[websocket] = "none"
         /\ handlers' = [handlers EXCEPT ![websocket] = "open"]
         /\ connected_clients' = connected_clients \cup {websocket}
         /\ IF broadcast.at = "awaiting"
            THEN \E reached \in BOOLEAN :
                    broadcast' = [broadcast EXCEPT !.pending =
                                     IF reached THEN @ \cup {websocket} ELSE @]
            ELSE UNCHANGED broadcast
    /\ UNCHANGED <<pc, conductVars, testVars, notBcastVars>>

\* the finally clause of websocket_vibe_endpoint:
\* connected_clients.discard(websocket)
disconnect ==
    /\ pc = "broadcast"
    /\ \E websocket \in Clients :
         /\ handlers[websocket] = "open"
         /\ handlers' = [handlers EXCEPT ![websocket] = "finished"]
         /\ connected_clients' = connected_clients \ {websocket}
         /\ broadcast' = [broadcast EXCEPT !.pending = @ \ {websocket}]
    /\ UNCHANGED <<pc, conductVars, testVars, notBcastVars>>

InitBroadcast ==
    /\ NoConduct
    /\ NoTest
    /\ NoTools
    /\ pc = "broadcast"

NextBroadcast ==
    \/ broadcast_to_clients
    \/ send_completed
    \/ connect
    \/ disconnect

SpecBroadcast == InitBroadcast /\ [][NextBroadcast]_vars

\* C27: whatever clients connect or disconnect while broadcast_to_clients
\* awaits a send, the broadcast does not raise, and once it has returned,
\* its result is the number of clients the message was sent to and
\* connected_clients holds no client whose send failed and no client whose
\* handler has finished.
C27_Broadcast ==
    /\ broadcast.at # "raised"
    /\ broadcast.at = "returned" =>
          /\ broadcast.result = Cardinality(broadcast.delivered)
          /\ connected_clients \cap broadcast.disconnected = {}
          /\ \A c \in Clients : handlers[c] = "finished" => c \notin connected_clients

----------------------------------------------------------------------------
(* build_mode_step_mapping, build_mode_contexts and the pipeline that calls *)
(* both (agents/helpers.py); ModeContext.step_offset                       *)
(* (agents/sfc_programmer.py).  A dict is the sequence of its items in      *)
(* insertion order.                                                         *)

f1 == <<"f", "1">>

\* d[key] = value
dict_set(d, key, value) ==
    IF \E i \in DOMAIN d : d[i][1] = key
    THEN [i \in DOMAIN d |-> IF d[i][1] = key THEN <<key, value>> ELSE d[i]]
    ELSE Append(d, <<key, value>>)

dict_keys(d) == {d[i][1] : i \in DOMAIN d}

\* d[key] of a key that is present
dict_item(d, key) == d[CHOOSE i \in DOMAIN d : d[i][1] = key][2]

\* an entry of gsrsm_data["modes"]: NoText stands for a missing or empty
\* "id" or "code", activated for m.get("activated", False)
GsrsmModes ==
    {[id |-> id, code |-> code, activated |-> activated] :
        id \in {NoText, A1, f1}, code \in {NoText, D1}, activated \in BOOLEAN}

GsrsmTransitionLists ==
    {<<>>,
     <<[fromMode |-> A1, toMode |-> f1, condition |-> "start"],
       [fromMode |-> f1, toMode |-> A1, condition |-> "stop"],
       [fromMode |-> NoText, toMode |-> f1, condition |-> "reset"]>>}

GsrsmData ==
    {[modes |-> modes, transitions |-> trans] :
        modes \in SeqsUpTo(GsrsmModes, MaxGsrsmModes), trans \in GsrsmTransitionLists}

\* [m for m in modes if m.get("activated", False)]
activated_modes(modes) == SelectSeq(modes, LAMBDA m : m.activated)

\* mode.get("id") or mode.get("code")
id_or_code(mode) == IF mode.id # NoText THEN mode.id ELSE mode.code

\* the loop of build_mode_step_mapping from its i-th activated mode on
RECURSIVE step_mapping_from(_, _, _, _)
step_mapping_from(activated, i, mode_step_mapping_, step_num) ==
    IF i > Len(activated) THEN mode_step_mapping_
    ELSE LET mode_id == id_or_code(activated[i])
         IN  IF mode_id # NoText
             THEN step_mapping_from(activated, i + 1,
                                    dict_set(mode_step_mapping_, mode_id, step_num),
                                    step_num + 1)
             ELSE step_mapping_from(activated, i + 1, mode_step_mapping_, step_num)

build_mode_step_mapping(data) ==
    step_mapping_from(activated_modes(data.modes), 1, <<>>, 1)

\* entry_conditions.get(mode_id, []): the conditions of the transitions
\* whose "toMode" is mode_id, in the order of the list
RECURSIVE conditions_to(_, _)
conditions_to(trans, mode_id) ==
    IF trans = <<>> THEN <<>>
    ELSE (IF trans[1].toMode # NoText /\ trans[1].toMode = mode_id
          THEN <<trans[1].condition>> ELSE <<>>)
         \o conditions_to(Tail(trans), mode_id)

\* exit_conditions.get(mode_id, [])
RECURSIVE conditions_from(_, _)
conditions_from(trans, mode_id) ==
    IF trans = <<>> THEN <<>>
    ELSE (IF trans[1].fromMode # NoText /\ trans[1].fromMode = mode_id
          THEN <<trans[1].condition>> ELSE <<>>)
         \o conditions_from(Tail(trans), mode_id)

\* the loop "for idx, mode in enumerate(activated_modes, start=1)"
RECURSIVE contexts_from(_, _, _)
contexts_from(activated, idx, trans) ==
    IF idx > Len(activated) THEN <<>>
    ELSE LET mode_id == id_or_code(activated[idx])
         IN  IF mode_id = NoText
             THEN contexts_from(activated, idx + 1, trans)
             ELSE <<[mode_id |-> mode_id,
                     entry_conditions |-> conditions_to(trans, mode_id),
                     exit_conditions |-> conditions_from(trans, mode_id),
                     category |-> upper(<<mode_id[1]>>),
                     conduct_step |-> idx]>>
                  \o contexts_from(activated, idx + 1, trans)

build_mode_contexts(data) ==
    contexts_from(activated_modes(data.modes), 1, data.transitions)

\* ModeContext.step_offset
step_offset(context) == context.conduct_step * 10

\* run_sfc_generation_pipeline(gsrsm_data, ...) up to the two builders
run_sfc_generation_pipeline ==
    /\ pc = "pipeline"
    /\ \E data \in GsrsmData :
         /\ gsrsm_data' = data
         /\ mode_contexts' = build_mode_contexts(data)
         /\ mode_step_mapping' = build_mode_step_mapping(data)
    /\ pc' = "built"
    /\ UNCHANGED <<conductVars, testVars, notCtxVars>>

InitPipeline ==
    /\ NoConduct
    /\ NoTest
    /\ NoTools
    /\ pc = "pipeline"

NextPipeline == run_sfc_generation_pipeline

SpecPipeline == InitPipeline /\ [][NextPipeline]_vars

\* C30: every ModeContext built from gsrsm_data has the conduct_step that
\* build_mode_step_mapping gives its mode_id, and two contexts never share
\* a conduct step nor a step offset.
C30_ConsistentNumbering ==
    /\ \A i \in DOMAIN mode_contexts :
          /\ mode_contexts[i].mode_id \in dict_keys(mode_step_mapping)
          /\ mode_contexts[i].conduct_step =
                dict_item(mode_step_mapping, mode_contexts[i].mode_id)
    /\ \A i, j \in DOMAIN mode_contexts :
          i # j => /\ mode_contexts[i].conduct_step # mode_contexts[j].conduct_step
                   /\ step_offset(mode_contexts[i]) # step_offset(mode_contexts[j])

====
